---------------------------- MODULE Spec2Model ----------------------------
(***************************************************************************)
(* State-machine model of the trading platform core: Order / Position /    *)
(* Portfolio value types (trading-core), the PaperBroker (trading-broker), *)
(* the risk manager (trading-risk) and the backtest driver                 *)
(* (trading-backtest).                                                     *)
(*                                                                         *)
(* Decimal amounts of money are integers counted in cents; quantities are  *)
(* whole shares.  Percentages keep the source's numbers: slippage_pct is   *)
(* carried in hundredths of a percent (0.05 % = 5).  Market prices are     *)
(* multiples of 20.00 so that a price slipped by 0.05 % is a whole number  *)
(* of cents and every quotient by a price is a terminating decimal, i.e.   *)
(* the exact value rust_decimal computes.                                  *)
(***************************************************************************)
EXTENDS Integers, Sequences, FiniteSets, TLC

VARIABLES
    orders,                \* PaperBroker.orders : order id -> Order
    portfolio,             \* PaperBroker.portfolio
    slippage_pct,          \* PaperBroker.slippage_pct, in 1/100 of a percent
    commission_per_share,  \* PaperBroker.commission_per_share, in cents
    last,                  \* the last broker call: operation, arguments, result
    ord,                   \* a stand-alone Order driven through Order::add_fill
    pos,                   \* a stand-alone Position driven through Position::apply_fill
    posLast,               \* the last apply_fill call on pos: arguments, result, pre-state
    data,                  \* BacktestEngine::run input: symbol -> bars
    iter_order,            \* iteration order of the data HashMap in each run
    script,                \* the strategy: (symbol, bar index) -> signal
    bt,                    \* state of a backtest run
    twin,                  \* state of a second run on the same inputs
    sizing,                \* a PositionSizer and its last calculate call
    risk,                  \* a RiskManager (daily_pnl) and its last call
    stop,                  \* a StopLossManager and the stop of one position
    strat,                 \* a strategy made by StrategyRegistry::create
    tf,                    \* a Timeframe, its display string and the parse of it
    series,                \* a BarSeries and the bars pushed on it
    ind,                   \* an indicator and its last call
    tasks                  \* tasks calling one PaperBroker concurrently

vars == <<orders, portfolio, slippage_pct, commission_per_share, last,
          ord, pos, posLast, data, iter_order, script, bt, twin,
          sizing, risk, stop, strat, tf, series, ind, tasks>>

brokerVars == <<orders, portfolio, slippage_pct, commission_per_share, last>>
orderVars == <<ord>>
positionVars == <<pos, posLast>>
backtestVars == <<data, iter_order, script, bt, twin>>
libVars == <<sizing, risk, stop, strat, tf, series, ind, tasks>>
coreVars == <<brokerVars, orderVars, positionVars, backtestVars>>

-----------------------------------------------------------------------------
(* Bounds of the model *)

MaxOrders == 2          \* orders submitted to one PaperBroker
MaxFills == 3           \* add_fill calls on one Order
MaxQty == 2             \* largest order / fill / held quantity drawn as an input
MaxPosSteps == 3        \* apply_fill calls on one Position

Symbols == {"A", "B"}
MarketPrices == {2000, 4000}      \* 20.00 and 40.00
LimitPrices == {3000}             \* 30.00
StopPrices == {3000}

-----------------------------------------------------------------------------
(* Option<T>: None is the empty sequence, Some(x) the one-element sequence *)

None == <<>>
Some(x) == <<x>>
IsSome(o) == Len(o) = 1
Unwrap(o) == o[1]
UnwrapOr(o, d) == IF IsSome(o) THEN o[1] ELSE d

Abs(x) == IF x < 0 THEN -x ELSE x
Min(a, b) == IF a <= b THEN a ELSE b
Max(a, b) == IF a >= b THEN a ELSE b
Signum(x) == IF x > 0 THEN 1 ELSE IF x < 0 THEN -1 ELSE 0

\* Decimal division, rounded to the model's resolution (rust_decimal rounds
\* the quotient to its 28 fractional digits).  b # 0.
DecDiv(a, b) ==
    LET q == (2 * Abs(a) + Abs(b)) \div (2 * Abs(b))
    IN  IF (a < 0) # (b < 0) THEN -q ELSE q

\* floor(a / b) for b > 0
FloorDiv(a, b) == a \div b

RECURSIVE SumOver(_, _)
SumOver(f, S) ==
    IF S = {} THEN 0
    ELSE LET x == CHOOSE y \in S : TRUE
         IN  f[x] + SumOver(f, S \ {x})

-----------------------------------------------------------------------------
(* trading-core: OrderStatus *)

TerminalStatuses == {"Filled", "Canceled", "Rejected", "Expired"}
ActiveStatuses == {"Pending", "Submitted", "Accepted", "PartiallyFilled"}

\* Mutant: a Filled order is not treated as terminal
is_terminal_unfilled(status) == status \in (TerminalStatuses \ {"Filled"})

is_terminal(status) == status \in TerminalStatuses
is_active(status) == status \in ActiveStatuses

(* trading-core: OrderRequest constructors *)

RequestMarket(symbol, side, quantity) ==
    [symbol |-> symbol, side |-> side, order_type |-> "Market",
     quantity |-> quantity, limit_price |-> None, stop_price |-> None]

RequestLimit(symbol, side, quantity, limit_price) ==
    [symbol |-> symbol, side |-> side, order_type |-> "Limit",
     quantity |-> quantity, limit_price |-> Some(limit_price), stop_price |-> None]

RequestStopLimit(symbol, side, quantity, stop_price, limit_price) ==
    [symbol |-> symbol, side |-> side, order_type |-> "StopLimit",
     quantity |-> quantity, limit_price |-> Some(limit_price),
     stop_price |-> Some(stop_price)]

(* trading-core: Order *)

from_request(request) ==
    [symbol |-> request.symbol,
     side |-> request.side,
     order_type |-> request.order_type,
     quantity |-> request.quantity,
     limit_price |-> request.limit_price,
     stop_price |-> request.stop_price,
     status |-> "Pending",
     filled_quantity |-> 0,
     filled_avg_price |-> None,
     fills |-> <<>>,
     filled_at |-> FALSE,
     canceled_at |-> FALSE]

MkFill(quantity, price, commission) ==
    [quantity |-> quantity, price |-> price, commission |-> commission]

\* Order::add_fill.  total_qty # 0 (the division aborts otherwise).
add_fill(order, fill) ==
    LET total_qty == order.filled_quantity + fill.quantity
        total_value == UnwrapOr(order.filled_avg_price, 0) * order.filled_quantity
                       + fill.price * fill.quantity
        filled == total_qty >= order.quantity
    IN  [order EXCEPT
            !.filled_avg_price = Some(DecDiv(total_value, total_qty)),
            !.filled_quantity = total_qty,
            !.fills = Append(order.fills, fill),
            !.status = IF filled THEN "Filled" ELSE "PartiallyFilled",
            !.filled_at = IF filled THEN TRUE ELSE order.filled_at]

-----------------------------------------------------------------------------
(* trading-core: Position *)

PositionNew(quantity, avg_entry_price) ==
    [quantity |-> quantity,
     avg_entry_price |-> avg_entry_price,
     current_price |-> avg_entry_price,
     market_value |-> quantity * avg_entry_price,
     cost_basis |-> quantity * avg_entry_price,
     unrealized_pnl |-> 0,
     realized_pnl |-> 0]

is_long(p) == p.quantity > 0
is_short(p) == p.quantity < 0
is_flat(p) == p.quantity = 0

\* Position::update_price (unrealized_pnl_percent, a display value no
\* operation reads, is not carried)
update_price(p, price) ==
    [p EXCEPT
        !.current_price = price,
        !.market_value = p.quantity * price,
        !.unrealized_pnl = p.quantity * price - p.cost_basis]

\* Mutant: P&L is realized on the whole fill instead of the closed portion
FillOutcome_whole_fill(p, side, quantity, price) ==
    LET fill_qty == IF side = "Buy" THEN quantity ELSE -quantity
        same_direction == \/ (p.quantity > 0 /\ fill_qty > 0)
                          \/ (p.quantity < 0 /\ fill_qty < 0)
    IN  IF same_direction \/ p.quantity = 0
        THEN LET total_cost == p.quantity * p.avg_entry_price + fill_qty * price
                 new_quantity == p.quantity + fill_qty
             IN  [quantity |-> new_quantity,
                  avg_entry_price |-> IF new_quantity # 0
                                      THEN DecDiv(total_cost, new_quantity)
                                      ELSE p.avg_entry_price,
                  realized |-> 0]
        ELSE LET close_qty == Min(Abs(fill_qty), Abs(p.quantity))
                 realized == IF p.quantity > 0
                             THEN Abs(fill_qty) * (price - p.avg_entry_price)
                             ELSE Abs(fill_qty) * (p.avg_entry_price - price)
                 remaining == Abs(fill_qty) - close_qty
             IN  [quantity |-> IF remaining > 0
                               THEN Signum(fill_qty) * remaining
                               ELSE p.quantity + fill_qty,
                  avg_entry_price |-> IF remaining > 0 THEN price
                                      ELSE p.avg_entry_price,
                  realized |-> realized]

\* Mutant: a same-direction add takes the fill price as the new entry price
FillOutcome_last_price(p, side, quantity, price) ==
    LET fill_qty == IF side = "Buy" THEN quantity ELSE -quantity
        same_direction == \/ (p.quantity > 0 /\ fill_qty > 0)
                          \/ (p.quantity < 0 /\ fill_qty < 0)
    IN  IF same_direction \/ p.quantity = 0
        THEN [quantity |-> p.quantity + fill_qty,
              avg_entry_price |-> price,
              realized |-> 0]
        ELSE LET close_qty == Min(Abs(fill_qty), Abs(p.quantity))
                 realized == IF p.quantity > 0
                             THEN close_qty * (price - p.avg_entry_price)
                             ELSE close_qty * (p.avg_entry_price - price)
                 remaining == Abs(fill_qty) - close_qty
             IN  [quantity |-> IF remaining > 0
                               THEN Signum(fill_qty) * remaining
                               ELSE p.quantity + fill_qty,
                  avg_entry_price |-> IF remaining > 0 THEN price
                                      ELSE p.avg_entry_price,
                  realized |-> realized]

\* The quantity and average entry price after a fill, and the P&L it realizes
FillOutcome(p, side, quantity, price) ==
    LET fill_qty == IF side = "Buy" THEN quantity ELSE -quantity
        same_direction == \/ (p.quantity > 0 /\ fill_qty > 0)
                          \/ (p.quantity < 0 /\ fill_qty < 0)
    IN  IF same_direction \/ p.quantity = 0
        THEN LET total_cost == p.quantity * p.avg_entry_price + fill_qty * price
                 new_quantity == p.quantity + fill_qty
             IN  [quantity |-> new_quantity,
                  avg_entry_price |-> IF new_quantity # 0
                                      THEN DecDiv(total_cost, new_quantity)
                                      ELSE p.avg_entry_price,
                  realized |-> 0]
        ELSE LET close_qty == Min(Abs(fill_qty), Abs(p.quantity))
                 realized == IF p.quantity > 0
                             THEN close_qty * (price - p.avg_entry_price)
                             ELSE close_qty * (p.avg_entry_price - price)
                 remaining == Abs(fill_qty) - close_qty
             IN  [quantity |-> IF remaining > 0
                               THEN Signum(fill_qty) * remaining
                               ELSE p.quantity + fill_qty,
                  avg_entry_price |-> IF remaining > 0 THEN price
                                      ELSE p.avg_entry_price,
                  realized |-> realized]

\* Position::apply_fill: the position after the fill and the returned P&L
apply_fill(p, side, quantity, price) ==
    LET o == FillOutcome(p, side, quantity, price)
        q == [p EXCEPT
                !.quantity = o.quantity,
                !.avg_entry_price = o.avg_entry_price,
                !.realized_pnl = p.realized_pnl + o.realized,
                !.cost_basis = o.quantity * o.avg_entry_price]
    IN  [pos |-> update_price(q, q.current_price), realized |-> o.realized]

-----------------------------------------------------------------------------
(* trading-core: Portfolio *)

PortfolioNew(initial_capital) ==
    [cash |-> initial_capital,
     buying_power |-> initial_capital,
     equity |-> initial_capital,
     positions |-> <<>>,                 \* symbol -> Position, flat ones absent
     total_unrealized_pnl |-> 0,
     total_realized_pnl |-> 0,
     initial_capital |-> initial_capital,
     peak_equity |-> initial_capital]

total_market_value(pf) ==
    SumOver([s \in DOMAIN pf.positions |-> pf.positions[s].market_value],
            DOMAIN pf.positions)

position_count(pf) == Cardinality(DOMAIN pf.positions)

\* Mutant: equity is taken to be the cash alone
update_equity_cash_only(pf) ==
    [pf EXCEPT
        !.equity = pf.cash,
        !.total_unrealized_pnl =
            SumOver([s \in DOMAIN pf.positions |-> pf.positions[s].unrealized_pnl],
                    DOMAIN pf.positions),
        !.peak_equity = IF pf.cash > pf.peak_equity THEN pf.cash ELSE pf.peak_equity]

\* Mutant: peak_equity follows the equity instead of its running maximum
update_equity_peak_follows(pf) ==
    LET equity == pf.cash + total_market_value(pf)
    IN  [pf EXCEPT
            !.equity = equity,
            !.total_unrealized_pnl =
                SumOver([s \in DOMAIN pf.positions |-> pf.positions[s].unrealized_pnl],
                        DOMAIN pf.positions),
            !.peak_equity = equity]

\* Portfolio::update_equity
update_equity(pf) ==
    LET equity == pf.cash + total_market_value(pf)
    IN  [pf EXCEPT
            !.equity = equity,
            !.total_unrealized_pnl =
                SumOver([s \in DOMAIN pf.positions |-> pf.positions[s].unrealized_pnl],
                        DOMAIN pf.positions),
            !.peak_equity = IF equity > pf.peak_equity THEN equity ELSE pf.peak_equity]

\* Portfolio::update_prices; prices : symbol -> price, on a subset of symbols
update_prices(pf, prices) ==
    update_equity(
        [pf EXCEPT !.positions =
            [s \in DOMAIN pf.positions |->
                IF s \in DOMAIN prices
                THEN update_price(pf.positions[s], prices[s])
                ELSE pf.positions[s]]])

\* Portfolio::drawdown, as the pair (numerator, denominator) of the percentage
drawdown_num(pf) == (pf.peak_equity - pf.equity) * 100
drawdown_den(pf) == pf.peak_equity


-----------------------------------------------------------------------------
(* trading-broker: PaperBroker.  The operations are functions of the broker's
   two maps and its configuration; each returns the new maps and the result
   of the call. *)

DefaultSlippagePct == 5     \* dec!(0.05), in 1/100 of a percent

\* The slipped price: market_price * (1 +/- slippage_pct / 100)
SlippedPrice(side, market_price, slip) ==
    IF side = "Buy"
    THEN (market_price * (10000 + slip)) \div 10000
    ELSE (market_price * (10000 - slip)) \div 10000

\* The limit check of execute_at_price: TRUE when the order may not fill
LimitBlocks(order, fill_price) ==
    /\ order.order_type = "Limit"
    /\ IsSome(order.limit_price)
    /\ \/ (order.side = "Buy" /\ fill_price > Unwrap(order.limit_price))
       \/ (order.side = "Sell" /\ fill_price < Unwrap(order.limit_price))

\* Mutant: the cost of a buy is compared with the equity, not the cash
FundsBlock_equity(order, fill_price, pf) ==
    /\ order.side = "Buy"
    /\ fill_price * order.quantity > pf.equity

\* The buying-power check of execute_at_price: TRUE when the buy is refused
FundsBlock(order, fill_price, pf) ==
    /\ order.side = "Buy"
    /\ fill_price * order.quantity > pf.cash

\* The portfolio after a fill of `order` at fill_price
PortfolioAfterFill(pf, order, fill_price, commission) ==
    LET fill_value == fill_price * order.quantity
        cash == IF order.side = "Buy"
                THEN pf.cash - (fill_value + commission)
                ELSE pf.cash + (fill_value - commission)
        held == IF order.symbol \in DOMAIN pf.positions
                THEN pf.positions[order.symbol]
                ELSE PositionNew(0, 0)
        position == apply_fill(held, order.side, order.quantity, fill_price).pos
        keep == IF is_flat(position)
                THEN DOMAIN pf.positions \ {order.symbol}
                ELSE DOMAIN pf.positions \cup {order.symbol}
        positions == [s \in keep |-> IF s = order.symbol THEN position
                                     ELSE pf.positions[s]]
        updated == update_equity([pf EXCEPT !.cash = cash, !.positions = positions])
    IN  [updated EXCEPT !.buying_power = updated.cash]

\* Mutant: the fill covers one share only and the status is add_fill's own
FilledOrder_one_share(order, fill_price, commission) ==
    add_fill(order, MkFill(1, fill_price, commission))

\* The order after execute_at_price filled it
FilledOrder(order, fill_price, commission) ==
    [add_fill(order, MkFill(order.quantity, fill_price, commission))
        EXCEPT !.status = "Filled"]

\* PaperBroker::execute_at_price
execute_at_price(os, pf, slip, comm, order_id, market_price) ==
    IF order_id \notin DOMAIN os
    THEN [orders |-> os, portfolio |-> pf, result |-> [kind |-> "OrderNotFound"]]
    ELSE
    LET order == os[order_id]
        fill_price == SlippedPrice(order.side, market_price, slip)
        commission == comm * order.quantity
    IN  IF is_terminal(order.status)
        THEN [orders |-> os, portfolio |-> pf,
              result |-> [kind |-> "Ok", order |-> order]]
        ELSE IF LimitBlocks(order, fill_price)
        THEN [orders |-> os, portfolio |-> pf,
              result |-> [kind |-> "Ok", order |-> order]]
        ELSE IF FundsBlock(order, fill_price, pf)
        THEN [orders |-> os, portfolio |-> pf,
              result |-> [kind |-> "InsufficientFunds",
                          required |-> fill_price * order.quantity,
                          available |-> pf.cash]]
        ELSE LET filled == FilledOrder(order, fill_price, commission)
             IN  [orders |-> [os EXCEPT ![order_id] = filled],
                  portfolio |-> PortfolioAfterFill(pf, order, fill_price, commission),
                  result |-> [kind |-> "Ok", order |-> filled]]

\* PaperBroker::submit_order: the new order gets a fresh id
NextOrderId(os) == Cardinality(DOMAIN os) + 1

submit_order(os, request) ==
    LET order == from_request(request)
        order_id == NextOrderId(os)
    IN  [orders |-> [i \in DOMAIN os \cup {order_id} |->
                        IF i = order_id THEN order ELSE os[i]],
         order_id |-> order_id,
         result |-> [kind |-> "Ok", order |-> order]]

\* PaperBroker::cancel_order
cancel_order(os, order_id) ==
    IF order_id \notin DOMAIN os
    THEN [orders |-> os, result |-> [kind |-> "OrderNotFound"]]
    ELSE IF is_terminal(os[order_id].status)
    THEN [orders |-> os, result |-> [kind |-> "OrderRejected"]]
    ELSE [orders |-> [os EXCEPT ![order_id] =
                        [@ EXCEPT !.status = "Canceled", !.canceled_at = TRUE]],
          result |-> [kind |-> "Ok"]]

\* Mutant: the closing order is placed on the side of the position itself
close_position_same_side(os, pf, symbol) ==
    IF symbol \notin DOMAIN pf.positions
    THEN [orders |-> os, order_id |-> 0, result |-> [kind |-> "PositionNotFound"]]
    ELSE submit_order(os, RequestMarket(symbol,
                              IF is_long(pf.positions[symbol]) THEN "Buy" ELSE "Sell",
                              Abs(pf.positions[symbol].quantity)))

\* PaperBroker::close_position
close_position(os, pf, symbol) ==
    IF symbol \notin DOMAIN pf.positions
    THEN [orders |-> os, order_id |-> 0, result |-> [kind |-> "PositionNotFound"]]
    ELSE submit_order(os, RequestMarket(symbol,
                              IF is_long(pf.positions[symbol]) THEN "Sell" ELSE "Buy",
                              Abs(pf.positions[symbol].quantity)))

-----------------------------------------------------------------------------
(* The PaperBroker driven by an arbitrary client *)

InitialCapitals == {10000, 2001}    \* 100.00, and 20.01: one share at 20.00 plus slippage
SlippageChoices == {DefaultSlippagePct}
CommissionChoices == {0, 1}         \* with_commission: none, or 0.01 per share

\* Order requests of the client: market buys on every symbol, market sells
\* and priced orders (for one share) on PricedSymbols
PricedSymbols == {"A"}

Requests ==
    {RequestMarket(s, "Buy", q) : s \in Symbols, q \in {1, 2}}
    \cup {RequestMarket(s, "Sell", q) : s \in PricedSymbols, q \in {1, 2}}
    \cup {RequestLimit(s, d, 1, l) :
            s \in PricedSymbols, d \in {"Buy", "Sell"}, l \in LimitPrices}
    \cup {RequestStopLimit(s, d, 1, t, l) :
            s \in PricedSymbols, d \in {"Buy", "Sell"},
            t \in StopPrices, l \in LimitPrices}

\* update_prices inputs: a quote for one symbol
PriceMaps == UNION {[{s} -> MarketPrices] : s \in Symbols}

NoCall == [op |-> "new"]

IdleOrder == from_request(RequestMarket("A", "Buy", 1))
IdlePosition == PositionNew(0, 0)
IdleRun == [pc |-> "idle"]

\* PaperBroker::new(initial_capital).with_slippage(..).with_commission(..);
\* the variables of the other state machines are idle
BrokerInit ==
    /\ tasks = IdleRun
    /\ ind = IdleRun
    /\ orders = <<>>
    /\ \E c \in InitialCapitals : portfolio = PortfolioNew(c)
    /\ slippage_pct \in SlippageChoices
    /\ commission_per_share \in CommissionChoices
    /\ last = NoCall
    /\ ord = IdleOrder
    /\ pos = IdlePosition
    /\ posLast = NoCall
    /\ data = <<>>
    /\ iter_order = <<>>
    /\ script = <<>>
    /\ bt = IdleRun
    /\ twin = IdleRun
    /\ sizing = IdleRun
    /\ risk = IdleRun
    /\ stop = IdleRun
    /\ strat = IdleRun
    /\ tf = IdleRun
    /\ series = IdleRun

SubmitOrder ==
    /\ Cardinality(DOMAIN orders) < MaxOrders
    /\ \E request \in Requests :
         LET r == submit_order(orders, request)
         IN  /\ orders' = r.orders
             /\ last' = [op |-> "submit_order", order_id |-> r.order_id,
                         result |-> r.result]
    /\ UNCHANGED <<portfolio, slippage_pct, commission_per_share>>
    /\ UNCHANGED <<orderVars, positionVars, backtestVars, libVars>>

ExecuteAtPrice ==
    \E order_id \in DOMAIN orders, market_price \in MarketPrices :
      LET r == execute_at_price(orders, portfolio, slippage_pct,
                                commission_per_share, order_id, market_price)
      IN  /\ orders' = r.orders
          /\ portfolio' = r.portfolio
          /\ last' = [op |-> "execute_at_price", order_id |-> order_id,
                      market_price |-> market_price,
                      pre_status |-> orders[order_id].status,
                      result |-> r.result]
          /\ UNCHANGED <<slippage_pct, commission_per_share>>
          /\ UNCHANGED <<orderVars, positionVars, backtestVars, libVars>>

CancelOrder ==
    \E order_id \in DOMAIN orders :
      LET r == cancel_order(orders, order_id)
      IN  /\ orders' = r.orders
          /\ last' = [op |-> "cancel_order", order_id |-> order_id,
                      pre_status |-> orders[order_id].status,
                      result |-> r.result]
          /\ UNCHANGED <<portfolio, slippage_pct, commission_per_share>>
          /\ UNCHANGED <<orderVars, positionVars, backtestVars, libVars>>

UpdatePrices ==
    \E prices \in PriceMaps :
      /\ portfolio' = update_prices(portfolio, prices)
      /\ last' = [op |-> "update_prices", prices |-> prices]
      /\ UNCHANGED <<orders, slippage_pct, commission_per_share>>
      /\ UNCHANGED <<orderVars, positionVars, backtestVars, libVars>>

\* broker.close_position(symbol); held is the signed quantity the portfolio
\* holds of the symbol when the call is made, 0 for none
ClosePosition ==
    \E symbol \in Symbols :
      LET r == close_position(orders, portfolio, symbol)
      IN  /\ symbol \in DOMAIN portfolio.positions =>
                Cardinality(DOMAIN orders) < MaxOrders
          /\ orders' = r.orders
          /\ last' = [op |-> "close_position", symbol |-> symbol,
                      held |-> IF symbol \in DOMAIN portfolio.positions
                               THEN portfolio.positions[symbol].quantity ELSE 0,
                      orders_before |-> Cardinality(DOMAIN orders),
                      order_id |-> r.order_id, result |-> r.result]
          /\ UNCHANGED <<portfolio, slippage_pct, commission_per_share>>
          /\ UNCHANGED <<orderVars, positionVars, backtestVars, libVars>>

BrokerNext ==
    SubmitOrder \/ ExecuteAtPrice \/ CancelOrder \/ UpdatePrices \/ ClosePosition

SpecBroker == BrokerInit /\ [][BrokerNext]_vars


-----------------------------------------------------------------------------
(* Properties of the PaperBroker (checked under SpecBroker) *)

\* C1: after any sequence of submit_order, execute_at_price, cancel_order and
\* update_prices, equity = cash + the sum of the held positions' market
\* values, and each market value = quantity x current price.
C1_EquityIdentity ==
    /\ portfolio.equity =
         portfolio.cash
         + SumOver([s \in DOMAIN portfolio.positions |->
                        portfolio.positions[s].quantity
                        * portfolio.positions[s].current_price],
                   DOMAIN portfolio.positions)
    /\ \A s \in DOMAIN portfolio.positions :
         portfolio.positions[s].market_value =
            portfolio.positions[s].quantity * portfolio.positions[s].current_price

\* Two positions are held and marked at different, non-zero prices
C1_Witness ==
    /\ DOMAIN portfolio.positions = {"A", "B"}
    /\ portfolio.positions["A"].current_price = 4000
    /\ portfolio.positions["B"].current_price = 2000
    /\ portfolio.positions["A"].quantity = 2
    /\ portfolio.equity # portfolio.cash

\* The call `last` records was execute_at_price / cancel_order on an order
\* that was terminal when the call began
ExecOnTerminal ==
    /\ last'.op = "execute_at_price"
    /\ orders[last'.order_id].status \in {"Filled", "Canceled", "Rejected", "Expired"}

CancelOnTerminal ==
    /\ last'.op = "cancel_order"
    /\ orders[last'.order_id].status \in {"Filled", "Canceled", "Rejected", "Expired"}

\* C2: a terminal order is immutable: execute_at_price on it, at any market
\* price, returns Ok with the order unchanged and leaves orders, cash,
\* positions and equity as they were; cancel_order on it returns
\* OrderRejected and changes nothing.  No order is ever filled twice.
C2_TerminalImmutable ==
    [][ /\ ExecOnTerminal =>
             /\ last'.result = [kind |-> "Ok", order |-> orders[last'.order_id]]
             /\ orders' = orders
             /\ portfolio' = portfolio
        /\ CancelOnTerminal =>
             /\ last'.result = [kind |-> "OrderRejected"]
             /\ orders' = orders
             /\ portfolio' = portfolio
        /\ \A i \in DOMAIN orders :
             orders[i].status \in {"Filled", "Canceled", "Rejected", "Expired"}
                => orders'[i] = orders[i]
      ]_vars

\* A Filled order was executed again at a market price other than the one it
\* was filled at, and a Canceled order is held too
C2_Witness ==
    /\ last.op = "execute_at_price"
    /\ last.pre_status = "Filled"
    /\ orders[last.order_id].side = "Buy"
    /\ orders[last.order_id].fills[1].price
         # (last.market_price * (10000 + slippage_pct)) \div 10000
    /\ \E i \in DOMAIN orders : orders[i].status = "Canceled"

\* C4 (as claimed): no order that carries a limit price is filled beyond it:
\* a filled Buy has fill price <= limit, a filled Sell has fill price >= limit.
C4_NoFillBeyondLimit ==
    \A i \in DOMAIN orders :
       (orders[i].limit_price # <<>> /\ orders[i].fills # <<>>) =>
          \A k \in 1..Len(orders[i].fills) :
             /\ orders[i].side = "Buy" =>
                  orders[i].fills[k].price <= orders[i].limit_price[1]
             /\ orders[i].side = "Sell" =>
                  orders[i].fills[k].price >= orders[i].limit_price[1]

\* The slipped price of the call `last'` records, for the order as it was
CallFillPrice ==
    IF orders[last'.order_id].side = "Buy"
    THEN (last'.market_price * (10000 + slippage_pct)) \div 10000
    ELSE (last'.market_price * (10000 - slippage_pct)) \div 10000

\* The call is execute_at_price on a Pending Buy whose slipped cost exceeds cash
ExecUnfundedBuy ==
    /\ last'.op = "execute_at_price"
    /\ orders[last'.order_id].status = "Pending"
    /\ orders[last'.order_id].side = "Buy"
    /\ CallFillPrice * orders[last'.order_id].quantity > portfolio.cash

\* The order is a Limit order whose limit the slipped price oversteps
CallBeyondLimit ==
    /\ orders[last'.order_id].order_type = "Limit"
    /\ orders[last'.order_id].limit_price # <<>>
    /\ CallFillPrice > orders[last'.order_id].limit_price[1]

RefusedForFunds ==
    /\ last'.result = [kind |-> "InsufficientFunds",
                       required |-> CallFillPrice * orders[last'.order_id].quantity,
                       available |-> portfolio.cash]
    /\ orders' = orders
    /\ portfolio' = portfolio
    /\ orders'[last'.order_id].status = "Pending"
    /\ orders'[last'.order_id].fills = <<>>

\* C5 (as claimed): whenever a Pending Buy order's slipped cost exceeds the
\* cash, execute_at_price returns InsufficientFunds with the required and
\* available amounts and nothing changes.
C5_Original == [][ExecUnfundedBuy => RefusedForFunds]_vars

\* C5 (amended): the same for a Buy order that the limit check lets through
\* (it is not a Limit order whose slipped price is above its limit).
C5_InsufficientFunds ==
    [][(ExecUnfundedBuy /\ ~CallBeyondLimit) => RefusedForFunds]_vars

\* A Buy was refused for funds while a position is held
C5_Witness ==
    /\ last.op = "execute_at_price"
    /\ last.result.kind = "InsufficientFunds"
    /\ last.result.required > last.result.available
    /\ last.result.available = portfolio.cash
    /\ orders[last.order_id].status = "Pending"
    /\ DOMAIN portfolio.positions # {}

\* C9: peak_equity never decreases, peak_equity >= equity in every state, and
\* the drawdown (peak - equity) / peak x 100 is never negative.
C9_PeakEquity ==
    /\ [](/\ portfolio.peak_equity >= portfolio.equity
          /\ portfolio.peak_equity > 0 =>
                (portfolio.peak_equity - portfolio.equity) * 100 >= 0)
    /\ [][portfolio'.peak_equity >= portfolio.peak_equity]_vars

\* The peak has risen above the initial capital and equity has fallen below it
C9_Witness ==
    /\ portfolio.peak_equity > portfolio.initial_capital
    /\ portfolio.equity < portfolio.peak_equity
    /\ last.op = "update_prices"

\* close_position has just answered for a symbol the portfolio holds / does
\* not hold
ClosedHeld == last.op = "close_position" /\ last.held # 0
ClosedNothing == last.op = "close_position" /\ last.held = 0

\* The order close_position placed is the one the next step fills
ClosingOrderFills ==
    /\ ClosedHeld
    /\ last'.op = "execute_at_price"
    /\ last'.order_id = last.order_id
    /\ orders'[last.order_id].status = "Filled"

Unfilled(order) ==
    /\ order.fills = <<>>
    /\ order.filled_quantity = 0
    /\ order.filled_avg_price = None

WhollyFilled(order) ==
    /\ Len(order.fills) = 1
    /\ order.fills[1].quantity = order.quantity
    /\ order.filled_quantity = order.quantity

\* C34: the PaperBroker never produces a partial fill: every order it holds
\* is Pending or Canceled with no fill and filled_quantity 0, or Filled with
\* exactly one fill of the full order quantity; no order is ever
\* PartiallyFilled, Submitted, Accepted, Rejected or Expired.
C34_NoPartialFill ==
    \A id \in DOMAIN orders :
        \/ orders[id].status \in {"Pending", "Canceled"} /\ Unfilled(orders[id])
        \/ orders[id].status = "Filled" /\ WhollyFilled(orders[id])

\* A two-share order was filled in one piece while another order, cancelled
\* before any execution touched it, stays without a fill
C34_Witness ==
    /\ last.op = "execute_at_price"
    /\ last.pre_status = "Pending"
    /\ Cardinality(DOMAIN orders) = 2
    /\ \E id \in DOMAIN orders :
          /\ id = last.order_id
          /\ orders[id].quantity = 2
          /\ orders[id].status = "Filled"
          /\ WhollyFilled(orders[id])
    /\ \E id \in DOMAIN orders :
          orders[id].status = "Canceled" /\ Unfilled(orders[id])

\* C40: starting from a non-negative initial capital with non-negative
\* slippage and commission, the cash (and the buying power, which the broker
\* sets to the cash) is never negative after any sequence of submit_order
\* and execute_at_price.
C40_CashNonNegative ==
    /\ portfolio.cash >= 0
    /\ portfolio.buying_power >= 0

\* The step is an execute_at_price call that fills order id
FillStep(id) ==
    /\ id \in DOMAIN orders
    /\ orders[id].status = "Pending"
    /\ last'.op = "execute_at_price"
    /\ last'.order_id = id
    /\ orders'[id].status = "Filled"

\* The value Position::apply_fill returns for the fill of order id in this
\* step: the P&L the fill realizes on the position held before it
RealizedByFill(id) ==
    LET order == orders[id]
        held == IF order.symbol \in DOMAIN portfolio.positions
                THEN portfolio.positions[order.symbol]
                ELSE PositionNew(0, 0)
    IN  apply_fill(held, order.side, order.quantity,
                   orders'[id].fills[1].price).realized

\* C38: after any sequence of fills executed by the PaperBroker,
\* portfolio.total_realized_pnl is the sum of the realized P&L of all
\* reducing fills: it starts at 0, every fill adds the value apply_fill
\* returns for it (also when the fill leaves the position flat and the
\* position is removed), and nothing else changes it.
C38_RealizedPnlAccumulated ==
    /\ (last.op = "new" => portfolio.total_realized_pnl = 0)
    /\ [][IF \E id \in DOMAIN orders : FillStep(id)
          THEN \A id \in DOMAIN orders :
                 FillStep(id) =>
                    portfolio'.total_realized_pnl =
                       portfolio.total_realized_pnl + RealizedByFill(id)
          ELSE portfolio'.total_realized_pnl = portfolio.total_realized_pnl]_vars


-----------------------------------------------------------------------------
(* An Order driven through Order::add_fill by an arbitrary caller *)

FillPrices == {2000, 4000}

OrderInit ==
    /\ tasks = IdleRun
    /\ \E q \in 1..MaxQty : ord = from_request(RequestMarket("A", "Buy", q))
    /\ ind = IdleRun
    /\ orders = <<>>
    /\ portfolio = PortfolioNew(0)
    /\ slippage_pct = 0
    /\ commission_per_share = 0
    /\ last = NoCall
    /\ pos = IdlePosition
    /\ posLast = NoCall
    /\ data = <<>>
    /\ iter_order = <<>>
    /\ script = <<>>
    /\ bt = IdleRun
    /\ twin = IdleRun
    /\ sizing = IdleRun
    /\ risk = IdleRun
    /\ stop = IdleRun
    /\ strat = IdleRun
    /\ tf = IdleRun
    /\ series = IdleRun

AddFill ==
    /\ Len(ord.fills) < MaxFills
    /\ \E q \in 1..MaxQty, price \in FillPrices :
         ord' = add_fill(ord, MkFill(q, price, 0))
    /\ UNCHANGED <<brokerVars, positionVars, backtestVars, libVars>>

OrderNext == AddFill

SpecOrder == OrderInit /\ [][OrderNext]_vars

\* C3 (as claimed): after any sequence of add_fill calls,
\* filled_quantity <= quantity, status = Filled implies
\* filled_quantity = quantity, and the status is PartiallyFilled exactly
\* while 0 < filled_quantity < quantity.
C3_FillBounds ==
    /\ ord.filled_quantity <= ord.quantity
    /\ ord.status = "Filled" => ord.filled_quantity = ord.quantity
    /\ ord.status = "PartiallyFilled" <=>
          (0 < ord.filled_quantity /\ ord.filled_quantity < ord.quantity)

-----------------------------------------------------------------------------
(* A Position driven through Position::apply_fill by an arbitrary caller *)

EntryPrices == {2000, 3000}
HeldQuantities == (-MaxQty..MaxQty)

PositionInit ==
    /\ tasks = IdleRun
    /\ \E q \in HeldQuantities, avg \in EntryPrices, cp \in FillPrices :
         pos = update_price(PositionNew(q, avg), cp)
    /\ posLast = NoCall
    /\ ind = IdleRun
    /\ orders = <<>>
    /\ portfolio = PortfolioNew(0)
    /\ slippage_pct = 0
    /\ commission_per_share = 0
    /\ last = NoCall
    /\ ord = IdleOrder
    /\ data = <<>>
    /\ iter_order = <<>>
    /\ script = <<>>
    /\ bt = IdleRun
    /\ twin = IdleRun
    /\ sizing = IdleRun
    /\ risk = IdleRun
    /\ stop = IdleRun
    /\ strat = IdleRun
    /\ tf = IdleRun
    /\ series = IdleRun

PosSteps == IF posLast.op = "new" THEN 0 ELSE posLast.step

ApplyFill ==
    /\ PosSteps < MaxPosSteps
    /\ \E side \in {"Buy", "Sell"}, q \in 1..(MaxQty + 1), price \in FillPrices :
         LET r == apply_fill(pos, side, q, price)
         IN  /\ pos' = r.pos
             /\ posLast' = [op |-> "apply_fill", side |-> side, quantity |-> q,
                            price |-> price, realized |-> r.realized,
                            pre |-> pos,
                            step |-> PosSteps + 1]
    /\ UNCHANGED <<brokerVars, orderVars, backtestVars, libVars>>

PositionNext == ApplyFill

SpecPosition == PositionInit /\ [][PositionNext]_vars

\* The signed quantity of the last fill, and whether it ran against the
\* position held before it
LastFillQty == IF posLast.side = "Buy" THEN posLast.quantity ELSE -posLast.quantity
LastOpposite ==
    /\ posLast.op = "apply_fill"
    /\ \/ (posLast.pre.quantity > 0 /\ posLast.side = "Sell")
       \/ (posLast.pre.quantity < 0 /\ posLast.side = "Buy")
LastClosedQty ==
    IF posLast.quantity <= Abs(posLast.pre.quantity)
    THEN posLast.quantity ELSE Abs(posLast.pre.quantity)

\* C10: a fill opposite to the held direction realizes P&L on the closed
\* portion only, closed_qty = min(|fill|, |held|): closed_qty x (price -
\* avg_entry) for a long, closed_qty x (avg_entry - price) for a short, added
\* to realized_pnl; a partial reduction keeps avg_entry_price, a full close
\* leaves the position flat, and a larger fill reverses the position to the
\* signed remainder with avg_entry_price = fill price.
C10_ReduceRealizesPnl ==
    LastOpposite =>
      /\ posLast.realized =
           IF posLast.pre.quantity > 0
           THEN LastClosedQty * (posLast.price - posLast.pre.avg_entry_price)
           ELSE LastClosedQty * (posLast.pre.avg_entry_price - posLast.price)
      /\ pos.realized_pnl = posLast.pre.realized_pnl + posLast.realized
      /\ pos.quantity = posLast.pre.quantity + LastFillQty
      /\ posLast.quantity < Abs(posLast.pre.quantity) =>
           /\ pos.avg_entry_price = posLast.pre.avg_entry_price
           /\ (pos.quantity > 0) = (posLast.pre.quantity > 0)
           /\ pos.quantity # 0
      /\ posLast.quantity = Abs(posLast.pre.quantity) => pos.quantity = 0
      /\ posLast.quantity > Abs(posLast.pre.quantity) =>
           /\ pos.avg_entry_price = posLast.price
           /\ Abs(pos.quantity) = posLast.quantity - Abs(posLast.pre.quantity)
           /\ (pos.quantity > 0) = (posLast.side = "Buy")

\* A long position was sold through to a short one at a loss
C10_Witness ==
    /\ LastOpposite
    /\ posLast.pre.quantity = 2
    /\ posLast.side = "Sell"
    /\ posLast.quantity = 3
    /\ pos.quantity = -1
    /\ posLast.realized < 0
    /\ posLast.pre.realized_pnl # 0

\* Whether the last fill went the way of the position held before it, or
\* met a flat position
LastSameDirection ==
    /\ posLast.op = "apply_fill"
    /\ \/ posLast.pre.quantity = 0
       \/ (posLast.pre.quantity > 0 /\ posLast.side = "Buy")
       \/ (posLast.pre.quantity < 0 /\ posLast.side = "Sell")

\* C11: a fill in the direction of the holding, or on a flat position,
\* realizes no P&L, sets the quantity to old + new (signed) and sets
\* avg_entry_price to (old_qty x old_avg + new_qty x price) / (old_qty +
\* new_qty), with the sizes of the holding and of the fill as the weights,
\* for long and short positions alike.
C11_AddAveragesEntry ==
    LastSameDirection =>
      /\ posLast.realized = 0
      /\ pos.realized_pnl = posLast.pre.realized_pnl
      /\ pos.quantity = posLast.pre.quantity + LastFillQty
      /\ pos.avg_entry_price =
           DecDiv(Abs(posLast.pre.quantity) * posLast.pre.avg_entry_price
                    + posLast.quantity * posLast.price,
                  Abs(posLast.pre.quantity) + posLast.quantity)

\* A short position was added to at a price other than its entry price
C11_Witness ==
    /\ LastSameDirection
    /\ posLast.pre.quantity < 0
    /\ posLast.side = "Sell"
    /\ posLast.price # posLast.pre.avg_entry_price
    /\ pos.quantity = posLast.pre.quantity - posLast.quantity
    /\ pos.avg_entry_price # posLast.price
    /\ pos.avg_entry_price # posLast.pre.avg_entry_price

-----------------------------------------------------------------------------
(* trading-core: Signal.  A signal carries the symbol of the series it was
   computed on, a signal_type and a strength. *)
SignalTypes == {"Buy", "Sell", "CloseLong", "CloseShort", "Hold"}
SignalStrengths == {"Weak", "Moderate", "Strong"}

MkSignal(signal_type, strength) == [signal_type |-> signal_type, strength |-> strength]

-----------------------------------------------------------------------------
(* trading-risk: PositionSizer, PortfolioLimits, RiskManager, with the
   configuration of RiskConfig::default().  Money is in cents. *)
SizingPercent == 2              \* SizingMethod::PercentEquity { percent: 2 }
MaxShares == 1000               \* max_shares: Some(1000)
MaxPositionPct == 10            \* PortfolioLimits::max_position_pct
MaxExposurePct == 80            \* max_exposure_pct
MaxPositions == 10              \* max_positions
DailyLossLimitPct == 3          \* daily_loss_limit_pct
MaxDrawdownPct == 20            \* max_drawdown_pct
MinCash == 100000               \* min_cash: 1000.00
MaxConcentrationPct == 25       \* max_concentration_pct

\* The strength multiplier of PositionSizer::calculate as <<numerator, denominator>>
StrengthMultiplier(strength) ==
    CASE strength = "Weak" -> <<1, 2>>
      [] strength = "Moderate" -> <<1, 1>>
      [] strength = "Strong" -> <<3, 2>>

\* PositionSizer::calculate for PercentEquity with use_signal_strength:
\*   floor(min(equity * percent/100 / price * multiplier, max_shares,
\*             buying_power / price))
\* The two quotients are compared as exact fractions.
calculate(pf, price, strength) ==
    IF price <= 0 THEN 0
    ELSE LET m == StrengthMultiplier(strength)
             num == pf.equity * SizingPercent * m[1]
             den == 100 * price * m[2]
             base == FloorDiv(num, den)
             capped == Min(base, MaxShares)
         IN  Min(capped, FloorDiv(pf.buying_power, price))

\* num / den >= pct, for a Decimal quotient with den # 0
RatioGe(num, den, pct) ==
    IF den > 0 THEN num >= pct * den ELSE num <= pct * den
RatioGt(num, den, pct) ==
    IF den > 0 THEN num > pct * den ELSE num < pct * den

\* Mutant: the daily loss blocks only beyond the limit, not at it
check_new_position_strict_loss(pf, position_value, daily_pnl) ==
    LET daily_loss_hit ==
            IF pf.initial_capital > 0
            THEN daily_pnl * 100 < -DailyLossLimitPct * pf.initial_capital
            ELSE 0 <= -DailyLossLimitPct
        drawdown_hit ==
            IF pf.peak_equity = 0 THEN 0 >= MaxDrawdownPct
            ELSE RatioGe(drawdown_num(pf), drawdown_den(pf), MaxDrawdownPct)
        cash_after == pf.cash - position_value
        current_exposure == total_market_value(pf)
        new_exposure == current_exposure + position_value
    IN  IF daily_loss_hit THEN [kind |-> "Blocked", reason |-> "daily loss"]
        ELSE IF drawdown_hit THEN [kind |-> "Blocked", reason |-> "drawdown"]
        ELSE IF position_count(pf) >= MaxPositions
        THEN [kind |-> "Blocked", reason |-> "max positions"]
        ELSE IF cash_after < MinCash
        THEN IF pf.cash - MinCash <= 0
             THEN [kind |-> "Blocked", reason |-> "cash reserve"]
             ELSE [kind |-> "Reduced", max_num |-> pf.cash - MinCash, max_den |-> 1]
        ELSE IF pf.equity = 0 THEN [kind |-> "Panic"]
        ELSE IF RatioGt(new_exposure * 100, pf.equity, MaxExposurePct)
        THEN LET max_num == pf.equity * MaxExposurePct - 100 * current_exposure
             IN  IF max_num <= 0
                 THEN [kind |-> "Blocked", reason |-> "max exposure"]
                 ELSE [kind |-> "Reduced", max_num |-> max_num, max_den |-> 100]
        ELSE IF RatioGt(position_value * 100, pf.equity, MaxPositionPct)
        THEN [kind |-> "Reduced", max_num |-> pf.equity * MaxPositionPct,
              max_den |-> 100]
        ELSE IF RatioGt(position_value * 100, pf.equity, MaxConcentrationPct)
        THEN [kind |-> "Reduced", max_num |-> pf.equity * MaxConcentrationPct,
              max_den |-> 100]
        ELSE [kind |-> "Allowed"]

\* Mutant: the position-size cap is examined before the minimum-cash cap
check_new_position_size_first(pf, position_value, daily_pnl) ==
    LET daily_loss_hit ==
            IF pf.initial_capital > 0
            THEN daily_pnl * 100 <= -DailyLossLimitPct * pf.initial_capital
            ELSE 0 <= -DailyLossLimitPct
        drawdown_hit ==
            IF pf.peak_equity = 0 THEN 0 >= MaxDrawdownPct
            ELSE RatioGe(drawdown_num(pf), drawdown_den(pf), MaxDrawdownPct)
        cash_after == pf.cash - position_value
        current_exposure == total_market_value(pf)
        new_exposure == current_exposure + position_value
    IN  IF daily_loss_hit THEN [kind |-> "Blocked", reason |-> "daily loss"]
        ELSE IF drawdown_hit THEN [kind |-> "Blocked", reason |-> "drawdown"]
        ELSE IF position_count(pf) >= MaxPositions
        THEN [kind |-> "Blocked", reason |-> "max positions"]
        ELSE IF pf.equity = 0 THEN [kind |-> "Panic"]
        ELSE IF RatioGt(position_value * 100, pf.equity, MaxPositionPct)
        THEN [kind |-> "Reduced", max_num |-> pf.equity * MaxPositionPct,
              max_den |-> 100]
        ELSE IF cash_after < MinCash
        THEN IF pf.cash - MinCash <= 0
             THEN [kind |-> "Blocked", reason |-> "cash reserve"]
             ELSE [kind |-> "Reduced", max_num |-> pf.cash - MinCash, max_den |-> 1]
        ELSE IF RatioGt(new_exposure * 100, pf.equity, MaxExposurePct)
        THEN LET max_num == pf.equity * MaxExposurePct - 100 * current_exposure
             IN  IF max_num <= 0
                 THEN [kind |-> "Blocked", reason |-> "max exposure"]
                 ELSE [kind |-> "Reduced", max_num |-> max_num, max_den |-> 100]
        ELSE IF RatioGt(position_value * 100, pf.equity, MaxConcentrationPct)
        THEN [kind |-> "Reduced", max_num |-> pf.equity * MaxConcentrationPct,
              max_den |-> 100]
        ELSE [kind |-> "Allowed"]

\* PortfolioLimits::check_new_position.  A reduced size is returned as the
\* fraction max_num / max_den of cents.  The percentage checks divide by the
\* equity: with equity = 0 the division panics.
check_new_position(pf, position_value, daily_pnl) ==
    LET daily_loss_hit ==
            IF pf.initial_capital > 0
            THEN daily_pnl * 100 <= -DailyLossLimitPct * pf.initial_capital
            ELSE 0 <= -DailyLossLimitPct
        drawdown_hit ==
            IF pf.peak_equity = 0 THEN 0 >= MaxDrawdownPct
            ELSE RatioGe(drawdown_num(pf), drawdown_den(pf), MaxDrawdownPct)
        cash_after == pf.cash - position_value
        current_exposure == total_market_value(pf)
        new_exposure == current_exposure + position_value
    IN  IF daily_loss_hit THEN [kind |-> "Blocked", reason |-> "daily loss"]
        ELSE IF drawdown_hit THEN [kind |-> "Blocked", reason |-> "drawdown"]
        ELSE IF position_count(pf) >= MaxPositions
        THEN [kind |-> "Blocked", reason |-> "max positions"]
        ELSE IF cash_after < MinCash
        THEN IF pf.cash - MinCash <= 0
             THEN [kind |-> "Blocked", reason |-> "cash reserve"]
             ELSE [kind |-> "Reduced", max_num |-> pf.cash - MinCash, max_den |-> 1]
        ELSE IF pf.equity = 0 THEN [kind |-> "Panic"]
        ELSE IF RatioGt(new_exposure * 100, pf.equity, MaxExposurePct)
        THEN LET max_num == pf.equity * MaxExposurePct - 100 * current_exposure
             IN  IF max_num <= 0
                 THEN [kind |-> "Blocked", reason |-> "max exposure"]
                 ELSE [kind |-> "Reduced", max_num |-> max_num, max_den |-> 100]
        ELSE IF RatioGt(position_value * 100, pf.equity, MaxPositionPct)
        THEN [kind |-> "Reduced", max_num |-> pf.equity * MaxPositionPct,
              max_den |-> 100]
        ELSE IF RatioGt(position_value * 100, pf.equity, MaxConcentrationPct)
        THEN [kind |-> "Reduced", max_num |-> pf.equity * MaxConcentrationPct,
              max_den |-> 100]
        ELSE [kind |-> "Allowed"]

StopLossPercent == 2            \* StopLossMethod::FixedPercent { percent: 2 }

\* StopLossManager::calculate_stop_price for FixedPercent
calculate_stop_price(entry_price, side) ==
    LET offset == DecDiv(entry_price * StopLossPercent, 100)
    IN  IF side = "Buy" THEN Some(entry_price - offset)
        ELSE Some(entry_price + offset)

SignalSide(signal_type) ==
    CASE signal_type = "Buy" -> "Buy"
      [] signal_type = "Sell" -> "Sell"
      [] signal_type = "CloseLong" -> "Sell"
      [] signal_type = "CloseShort" -> "Buy"

\* Mutant: a reduced quantity of zero is sent on as a Modified order
LimitedDecision_keep_zero(limit_check, symbol, side, quantity, current_price, stop_loss_price) ==
    IF limit_check.kind = "Panic" THEN [kind |-> "Panic"]
    ELSE IF limit_check.kind = "Blocked" THEN [kind |-> "Rejected"]
    ELSE IF limit_check.kind = "Reduced"
    THEN [kind |-> "Modified",
          order |-> RequestMarket(symbol, side,
                       FloorDiv(limit_check.max_num, limit_check.max_den * current_price)),
          stop_loss_price |-> stop_loss_price]
    ELSE [kind |-> "Approved",
          order |-> RequestMarket(symbol, side, quantity),
          stop_loss_price |-> stop_loss_price]

\* RiskManager::evaluate_signal, from the limit check on
LimitedDecision(limit_check, symbol, side, quantity, current_price, stop_loss_price) ==
    IF limit_check.kind = "Panic" THEN [kind |-> "Panic"]
    ELSE IF limit_check.kind = "Blocked" THEN [kind |-> "Rejected"]
    ELSE IF limit_check.kind = "Reduced"
    THEN LET reduced_quantity ==
                 FloorDiv(limit_check.max_num, limit_check.max_den * current_price)
         IN  IF reduced_quantity <= 0 THEN [kind |-> "Rejected"]
             ELSE [kind |-> "Modified",
                   order |-> RequestMarket(symbol, side, reduced_quantity),
                   stop_loss_price |-> stop_loss_price]
    ELSE [kind |-> "Approved",
          order |-> RequestMarket(symbol, side, quantity),
          stop_loss_price |-> stop_loss_price]

\* RiskManager::evaluate_signal, from the computed quantity on
SizedDecision(pf, symbol, side, quantity, current_price, daily_pnl) ==
    IF quantity <= 0 THEN [kind |-> "Rejected"]
    ELSE LimitedDecision(check_new_position(pf, quantity * current_price, daily_pnl),
                         symbol, side, quantity, current_price,
                         calculate_stop_price(current_price, side))

\* RiskManager::evaluate_signal; daily_pnl is the manager's running figure
evaluate_signal(pf, symbol, signal, current_price, daily_pnl) ==
    IF signal.signal_type = "Hold" THEN [kind |-> "Rejected"]
    ELSE SizedDecision(pf, symbol, SignalSide(signal.signal_type),
                       calculate(pf, current_price, signal.strength),
                       current_price, daily_pnl)

\* RiskDecision::order
DecisionOrder(decision) ==
    IF decision.kind \in {"Approved", "Modified"} THEN Some(decision.order) ELSE None

-----------------------------------------------------------------------------
(* trading-backtest: BacktestStats.  The model carries the equity curve, the
   trade list and the counters; the floating-point return series and the
   ratio statistics derived from them are left out. *)
StatsNew(initial_capital) ==
    [final_equity |-> initial_capital,
     total_trades |-> 0,
     winning_trades |-> 0,
     losing_trades |-> 0,
     win_rate_pct |-> 0,
     bars_processed |-> 0,
     equity_curve |-> <<>>,
     trades |-> <<>>,
     peak_equity |-> initial_capital]

\* Mutant: a sample is dropped when its timestamp equals the previous one's
record_equity_per_timestamp(stats, timestamp, equity) ==
    IF /\ stats.equity_curve # <<>>
       /\ stats.equity_curve[Len(stats.equity_curve)][1] = timestamp
    THEN stats
    ELSE [stats EXCEPT
            !.equity_curve = Append(@, <<timestamp, equity>>),
            !.peak_equity = IF equity > @ THEN equity ELSE @,
            !.bars_processed = @ + 1]

\* BacktestStats::record_equity
record_equity(stats, timestamp, equity) ==
    [stats EXCEPT
        !.equity_curve = Append(@, <<timestamp, equity>>),
        !.peak_equity = IF equity > @ THEN equity ELSE @,
        !.bars_processed = @ + 1]

\* BacktestStats::add_trade
add_trade(stats, trade) ==
    [stats EXCEPT !.trades = Append(@, trade), !.total_trades = @ + 1]

\* The trade records whose pnl is Some and satisfies the comparison
Winners(trades) ==
    {i \in DOMAIN trades : IsSome(trades[i].pnl) /\ Unwrap(trades[i].pnl) > 0}
Losers(trades) ==
    {i \in DOMAIN trades : IsSome(trades[i].pnl) /\ Unwrap(trades[i].pnl) < 0}

\* BacktestStats::finalize: final equity, the win/loss counters and the win
\* rate, a Decimal quotient kept here in whole percent
finalize(stats, pf) ==
    [stats EXCEPT
        !.final_equity = pf.equity,
        !.winning_trades = @ + Cardinality(Winners(stats.trades)),
        !.losing_trades = @ + Cardinality(Losers(stats.trades)),
        !.win_rate_pct =
            IF stats.total_trades > 0
            THEN DecDiv((stats.winning_trades + Cardinality(Winners(stats.trades))) * 100,
                        stats.total_trades)
            ELSE @]

-----------------------------------------------------------------------------
(* trading-backtest: BacktestEngine::run with BacktestConfig::default().
   data maps a symbol to its bars; a bar is [timestamp, close] (close already
   converted to a Decimal, in cents).  The strategy is a script: the signal
   it returns for a symbol when that symbol's series holds k bars. *)
InitialCapital == 10000000      \* initial_capital: 100000.00
DefaultCommission == 0          \* commission: 0

\* `for (symbol, bars) in &data { for bar in bars { push } }`, with `order` the
\* sequence in which the HashMap yields its keys
RECURSIVE Flatten(_, _)
Flatten(dt, order) ==
    IF order = <<>> THEN <<>>
    ELSE LET symbol == Head(order)
         IN  [k \in 1..Len(dt[symbol]) |->
                 [timestamp |-> dt[symbol][k].timestamp,
                  symbol |-> symbol,
                  bar |-> dt[symbol][k]]]
             \o Flatten(dt, Tail(order))

\* Vec::sort_by_key on the timestamp: a stable sort
InsertByKey(sorted, e) ==
    LET n == Cardinality({i \in 1..Len(sorted) : sorted[i].timestamp <= e.timestamp})
    IN  SubSeq(sorted, 1, n) \o <<e>> \o SubSeq(sorted, n + 1, Len(sorted))

RECURSIVE sort_by_key(_)
sort_by_key(seq) ==
    IF seq = <<>> THEN <<>>
    ELSE InsertByKey(sort_by_key(SubSeq(seq, 1, Len(seq) - 1)), seq[Len(seq)])

\* The state of run() on entering the loop
RunNew(dt, order) ==
    [pc |-> "running",
     all_timestamps |-> sort_by_key(Flatten(dt, order)),
     next |-> 1,
     series_len |-> [s \in DOMAIN dt |-> 0],
     orders |-> <<>>,
     portfolio |-> PortfolioNew(InitialCapital),
     open_positions |-> <<>>,           \* symbol -> [entry_price, quantity]
     stats |-> StatsNew(InitialCapital),
     daily_pnl |-> 0,                   \* RiskManager::new: daily_pnl
     last |-> NoCall]                   \* what the latest iteration saw

\* Variant: only duplicate entries are skipped
SkipSignal_buy_only(signal, already_holding) ==
    signal.signal_type = "Buy" /\ already_holding

\* The signals the loop does not act on
SkipSignal(signal, already_holding) ==
    \/ (signal.signal_type = "Buy" /\ already_holding)
    \/ (signal.signal_type \in {"Sell", "CloseLong"} /\ ~already_holding)

\* open_positions after a buy fill: weighted average entry, quantity added
OpenAfterBuy(open, symbol, fill_price, fill_qty) ==
    LET entry == IF symbol \in DOMAIN open THEN open[symbol]
                 ELSE [entry_price |-> 0, quantity |-> 0]
        price == IF entry.quantity + fill_qty > 0
                 THEN DecDiv(entry.entry_price * entry.quantity + fill_price * fill_qty,
                             entry.quantity + fill_qty)
                 ELSE entry.entry_price
        updated == [entry_price |-> price, quantity |-> entry.quantity + fill_qty]
    IN  [s \in DOMAIN open \cup {symbol} |-> IF s = symbol THEN updated ELSE open[s]]

\* open_positions after a sell fill: at most the tracked quantity is closed,
\* and an emptied entry is removed
OpenAfterSell(open, symbol, fill_qty) ==
    IF symbol \notin DOMAIN open \/ open[symbol].quantity <= 0 THEN open
    ELSE LET close_qty == Min(fill_qty, open[symbol].quantity)
             left == open[symbol].quantity - close_qty
         IN  IF left <= 0
             THEN [s \in DOMAIN open \ {symbol} |-> open[s]]
             ELSE [open EXCEPT ![symbol].quantity = left]

\* Variant: the P&L is taken over the whole fill, not the closed quantity
TradePnl_whole_fill(open, symbol, side, fill_price, fill_qty) ==
    IF side = "Buy" THEN None
    ELSE IF symbol \notin DOMAIN open \/ open[symbol].quantity <= 0 THEN None
    ELSE Some((fill_price - open[symbol].entry_price) * fill_qty)

\* The pnl field of the trade record of a fill
TradePnl(open, symbol, side, fill_price, fill_qty) ==
    IF side = "Buy" THEN None
    ELSE IF symbol \notin DOMAIN open \/ open[symbol].quantity <= 0 THEN None
    ELSE Some((fill_price - open[symbol].entry_price)
              * Min(fill_qty, open[symbol].quantity))

\* The loop body once execute_at_price has returned Ok(filled): the driver's
\* own bookkeeping and the trade record
RecordFill(run, symbol, signal, timestamp, request, executed, fill_price, fill_qty) ==
    [run EXCEPT
        !.orders = executed.orders,
        !.portfolio = executed.portfolio,
        !.open_positions =
            IF request.side = "Buy"
            THEN OpenAfterBuy(@, symbol, fill_price, fill_qty)
            ELSE OpenAfterSell(@, symbol, fill_qty),
        !.stats = add_trade(@,
            [symbol |-> symbol,
             side |-> request.side,
             quantity |-> fill_qty,
             price |-> fill_price,
             timestamp |-> timestamp,
             signal_type |-> signal.signal_type,
             pnl |-> TradePnl(run.open_positions, symbol, request.side,
                              fill_price, fill_qty)])]

\* Variant: a refused order is booked as if it had filled at the bar's close
RecordExecution_book_refused(run, symbol, signal, current_price, timestamp, request, executed) ==
    IF executed.result.kind # "Ok"
    THEN RecordFill(run, symbol, signal, timestamp, request, executed,
                    current_price, request.quantity)
    ELSE RecordFill(run, symbol, signal, timestamp, request, executed,
                    UnwrapOr(executed.result.order.filled_avg_price, current_price),
                    executed.result.order.filled_quantity)

\* `if let Ok(filled) = broker.execute_at_price(order.id, current_price)`
RecordExecution(run, symbol, signal, current_price, timestamp, request, executed) ==
    IF executed.result.kind # "Ok"
    THEN [run EXCEPT !.orders = executed.orders]
    ELSE RecordFill(run, symbol, signal, timestamp, request, executed,
                    UnwrapOr(executed.result.order.filled_avg_price, current_price),
                    executed.result.order.filled_quantity)

\* `if let Ok(order) = broker.submit_order(order_request.clone())`
PlaceOrder(run, symbol, signal, current_price, timestamp, request, submitted) ==
    RecordExecution(run, symbol, signal, current_price, timestamp, request,
                    execute_at_price(submitted.orders, run.portfolio,
                                     slippage_pct, commission_per_share,
                                     submitted.order_id, current_price))

\* `if let Some(order_request) = decision.order()`
ActOnDecision(run, symbol, signal, current_price, timestamp, decision) ==
    IF decision.kind = "Panic" THEN [run EXCEPT !.pc = "panicked"]
    ELSE IF ~IsSome(DecisionOrder(decision)) THEN run
    ELSE PlaceOrder(run, symbol, signal, current_price, timestamp, decision.order,
                    submit_order(run.orders, decision.order))

\* The part of the loop body that acts on a signal the loop does not skip:
\* risk evaluation with the close as the current price, then the order
HandleSignal(run, symbol, signal, current_price, timestamp) ==
    ActOnDecision(run, symbol, signal, current_price, timestamp,
                  evaluate_signal(run.portfolio, symbol, signal, current_price,
                                  run.daily_pnl))

\* The prices the loop hands to update_prices: for every symbol of the data,
\* the close of its first bar carrying this timestamp
PricesAt(dt, timestamp) ==
    LET having == {s \in DOMAIN dt :
                     \E k \in 1..Len(dt[s]) : dt[s][k].timestamp = timestamp}
    IN  [s \in having |->
            LET k == CHOOSE i \in 1..Len(dt[s]) :
                        /\ dt[s][i].timestamp = timestamp
                        /\ \A j \in 1..(i - 1) : dt[s][j].timestamp # timestamp
            IN  dt[s][k].close]

\* Variant: the loop reports the P&L since the start to the risk manager
\* (update_daily_pnl) before it records the equity
RecordBar_reports_pnl(acted, timestamp, priced) ==
    [acted EXCEPT
        !.portfolio = priced,
        !.daily_pnl = priced.equity - priced.initial_capital,
        !.stats = record_equity(@, timestamp, priced.equity)]

\* The end of the loop body: record_equity on the re-priced portfolio
RecordBar(acted, timestamp, priced) ==
    [acted EXCEPT
        !.portfolio = priced,
        !.stats = record_equity(@, timestamp, priced.equity)]

\* The end of the loop body: update_prices
PriceBar(acted, dt, timestamp) ==
    IF acted.pc = "panicked" THEN acted
    ELSE RecordBar(acted, timestamp,
                   update_prices(acted.portfolio, PricesAt(dt, timestamp)))

\* The bar e is pushed on its series and taken off the list; run.last keeps
\* what the iteration started from and whether the signal went on to the risk
\* manager
Noted(run, e, k, on_bar, evaluated) ==
    [run EXCEPT
        !.series_len[e.symbol] = k,
        !.next = @ + 1,
        !.last = [op |-> "bar",
                  symbol |-> e.symbol,
                  close |-> e.bar.close,
                  signal |-> on_bar,
                  already_holding |-> e.symbol \in DOMAIN run.open_positions,
                  evaluated |-> evaluated,
                  open_positions |-> run.open_positions,
                  portfolio |-> run.portfolio,
                  daily_pnl |-> run.daily_pnl,
                  orders |-> Cardinality(DOMAIN run.orders),
                  trades |-> run.stats.total_trades,
                  samples |-> Len(run.stats.equity_curve)]]

\* The start of the loop body: the bar e is pushed on its series, the strategy
\* is asked for a signal, and the signal is acted on unless skipped
ActOnBar(run, e, k, on_bar) ==
    IF IsSome(on_bar)
       /\ ~SkipSignal(Unwrap(on_bar), e.symbol \in DOMAIN run.open_positions)
    THEN HandleSignal(Noted(run, e, k, on_bar, TRUE),
                      e.symbol, Unwrap(on_bar), e.bar.close, e.timestamp)
    ELSE Noted(run, e, k, on_bar, FALSE)

\* One iteration of the loop over all_timestamps
BarStep(run, dt, scr, e, k) ==
    PriceBar(ActOnBar(run, e, k, scr[<<e.symbol, k>>]), dt, e.timestamp)

process_bar(run, dt, scr) ==
    BarStep(run, dt, scr, run.all_timestamps[run.next],
            run.series_len[run.all_timestamps[run.next].symbol] + 1)

\* After the loop: a synthesized closing trade for every open position, in
\* the order `order` in which the open_positions HashMap yields its keys,
\* then BacktestStats::finalize
RECURSIVE ClosingTrades(_, _, _)
ClosingTrades(open, dt, order) ==
    IF order = <<>> THEN <<>>
    ELSE LET symbol == Head(order)
             entry == open[symbol]
             rest == ClosingTrades(open, dt, Tail(order))
         IN  IF entry.quantity > 0 /\ symbol \in DOMAIN dt /\ dt[symbol] # <<>>
             THEN LET last_bar == dt[symbol][Len(dt[symbol])]
                  IN  <<[symbol |-> symbol,
                         side |-> "Sell",
                         quantity |-> entry.quantity,
                         price |-> last_bar.close,
                         timestamp |-> last_bar.timestamp,
                         signal_type |-> "CloseLong",
                         pnl |-> Some((last_bar.close - entry.entry_price)
                                      * entry.quantity)]>> \o rest
             ELSE rest

RECURSIVE AddTrades(_, _)
AddTrades(stats, trades) ==
    IF trades = <<>> THEN stats
    ELSE AddTrades(add_trade(stats, Head(trades)), Tail(trades))

finish(run, dt, order) ==
    [run EXCEPT
        !.pc = "done",
        !.last = [op |-> "finish", trades |-> run.stats.total_trades],
        !.stats = finalize(AddTrades(run.stats,
                                     ClosingTrades(run.open_positions, dt, order)),
                           run.portfolio)]

-----------------------------------------------------------------------------
(* Two backtests of one strategy on one data set.  Each run iterates the data
   HashMap, and at the end its open_positions HashMap, in an order of its
   own: the order in which a HashMap yields its keys is not specified. *)
MaxBars == 3            \* bars in the data set, all symbols together

Timestamps == {1, 2}
Bars == [timestamp : Timestamps, close : MarketPrices]

\* The bars of one symbol, sorted by strictly increasing timestamp
BarSeqs ==
    {bs \in UNION {[1..n -> Bars] : n \in 0..Cardinality(Timestamps)} :
        \A i \in 1..(Len(bs) - 1) : bs[i].timestamp < bs[i + 1].timestamp}

TotalBars(dt) == SumOver([s \in DOMAIN dt |-> Len(dt[s])], DOMAIN dt)

DataSets ==
    {dt \in UNION {[S -> BarSeqs] : S \in SUBSET Symbols} : TotalBars(dt) <= MaxBars}

BarKeys(dt) ==
    {sk \in Symbols \X (1..Cardinality(Timestamps)) :
        sk[1] \in DOMAIN dt /\ sk[2] <= Len(dt[sk[1]])}

\* What Strategy::on_bar may return
SignalChoices ==
    {None,
     Some(MkSignal("Buy", "Moderate")),
     Some(MkSignal("Sell", "Moderate")),
     Some(MkSignal("CloseLong", "Strong")),
     Some(MkSignal("CloseShort", "Weak")),
     Some(MkSignal("Hold", "Moderate"))}

\* BacktestConfig.slippage_pct: the default 0.05%, and 5000%, at which a
\* full-size buy costs more than the initial capital
BacktestSlippages == {DefaultSlippagePct, 500000}

\* The orders in which a HashMap with key set S can yield its keys
KeyOrders(S) ==
    {o \in [1..Cardinality(S) -> S] : \A i, j \in DOMAIN o : o[i] = o[j] => i = j}

BacktestInit ==
    /\ tasks = IdleRun
    /\ ind = IdleRun
    /\ orders = <<>>
    /\ portfolio = PortfolioNew(0)
    /\ slippage_pct \in BacktestSlippages
    /\ commission_per_share = DefaultCommission
    /\ last = NoCall
    /\ ord = IdleOrder
    /\ pos = IdlePosition
    /\ posLast = NoCall
    /\ data \in DataSets
    /\ script \in [BarKeys(data) -> SignalChoices]
    /\ iter_order \in KeyOrders(DOMAIN data) \X KeyOrders(DOMAIN data)
    /\ bt = RunNew(data, iter_order[1])
    /\ twin = RunNew(data, iter_order[2])
    /\ sizing = IdleRun
    /\ risk = IdleRun
    /\ stop = IdleRun
    /\ strat = IdleRun
    /\ tf = IdleRun
    /\ series = IdleRun

InLoop(run) == run.pc = "running" /\ run.next <= Len(run.all_timestamps)

\* Both runs take their next bar
ProcessBar ==
    /\ InLoop(bt) \/ InLoop(twin)
    /\ bt' = IF InLoop(bt) THEN process_bar(bt, data, script) ELSE bt
    /\ twin' = IF InLoop(twin) THEN process_bar(twin, data, script) ELSE twin
    /\ UNCHANGED <<data, iter_order, script, brokerVars, orderVars, positionVars,
                   libVars>>

\* Both runs leave the loop and produce their report
Finish ==
    /\ ~InLoop(bt) /\ ~InLoop(twin)
    /\ bt.pc = "running" \/ twin.pc = "running"
    /\ \E o1 \in KeyOrders(DOMAIN bt.open_positions),
          o2 \in KeyOrders(DOMAIN twin.open_positions) :
         /\ bt' = IF bt.pc = "running" THEN finish(bt, data, o1) ELSE bt
         /\ twin' = IF twin.pc = "running" THEN finish(twin, data, o2) ELSE twin
    /\ UNCHANGED <<data, iter_order, script, brokerVars, orderVars, positionVars,
                   libVars>>

BacktestNext == ProcessBar \/ Finish

SpecBacktest == BacktestInit /\ [][BacktestNext]_vars

\* C6: during a backtest the driver's open-position map and the broker's
\* portfolio agree after every processed bar: for every symbol, the driver
\* records a quantity q > 0 exactly when the broker holds a position of
\* quantity q, and a symbol absent from the driver's map has no broker
\* position.
C6_LedgersAgree ==
    \A s \in Symbols :
        /\ s \in DOMAIN bt.open_positions =>
             /\ bt.open_positions[s].quantity > 0
             /\ s \in DOMAIN bt.portfolio.positions
             /\ bt.portfolio.positions[s].quantity = bt.open_positions[s].quantity
        /\ s \notin DOMAIN bt.open_positions => s \notin DOMAIN bt.portfolio.positions

\* C7: two runs on equal inputs visit the bars in the same order and report
\* the same sequence of trade records and the same equity curve.
C7_Deterministic ==
    (bt.pc = "done" /\ twin.pc = "done") =>
        /\ bt.all_timestamps = twin.all_timestamps
        /\ bt.stats.trades = twin.stats.trades
        /\ bt.stats.equity_curve = twin.stats.equity_curve

\* C8: one equity sample per input bar, in non-decreasing timestamp order:
\* while the loop runs there are as many samples as bars taken, and a
\* finished run over B bars has an equity curve of length B and
\* bars_processed = B, whatever the bars produced.
C8_OneSamplePerBar ==
    /\ bt.pc # "panicked"
    /\ Len(bt.stats.equity_curve) = bt.next - 1
    /\ bt.stats.bars_processed = bt.next - 1
    /\ \A i \in 1..(Len(bt.stats.equity_curve) - 1) :
          bt.stats.equity_curve[i][1] <= bt.stats.equity_curve[i + 1][1]
    /\ \A i \in 1..Len(bt.stats.equity_curve) :
          bt.stats.equity_curve[i][1] = bt.all_timestamps[i].timestamp
    /\ bt.pc = "done" =>
          /\ Len(bt.stats.equity_curve) = TotalBars(data)
          /\ bt.stats.bars_processed = TotalBars(data)

\* A finished run over three bars of two symbols, two of them sharing a
\* timestamp, in which one bar gave no signal, one a rejected signal and one
\* a fill
C8_Witness ==
    /\ bt.pc = "done"
    /\ TotalBars(data) = MaxBars
    /\ DOMAIN data = Symbols
    /\ \E i \in 1..(Len(bt.all_timestamps) - 1) :
          bt.all_timestamps[i].timestamp = bt.all_timestamps[i + 1].timestamp
    /\ \E sk \in BarKeys(data) : script[sk] = None
    /\ \E sk \in BarKeys(data) : script[sk] = Some(MkSignal("Hold", "Moderate"))
    /\ bt.stats.total_trades > 0
    /\ Len(bt.stats.equity_curve) = MaxBars


\* The trade records of the finished run that carry a realized P&L
TradesWithPnl == {i \in DOMAIN bt.stats.trades : IsSome(bt.stats.trades[i].pnl)}

\* C21: the reported win rate is taken over the trades that carry a realized
\* P&L: 100 x (trades with P&L > 0) / (trades whose P&L is present); opening
\* legs without P&L do not enter the denominator.
C21_WinRateOverPnlTrades ==
    (bt.pc = "done" /\ TradesWithPnl # {}) =>
        bt.stats.win_rate_pct =
            DecDiv(100 * Cardinality(Winners(bt.stats.trades)),
                   Cardinality(TradesWithPnl))

\* The latest iteration put an order to the broker, which refused it
OrderRefused ==
    /\ bt.last.op = "bar"
    /\ Cardinality(DOMAIN bt.orders) = bt.last.orders + 1
    /\ bt.orders[bt.last.orders + 1].status # "Filled"

\* The latest iteration put an order to the broker, which filled it
OrderFilled ==
    /\ bt.last.op = "bar"
    /\ Cardinality(DOMAIN bt.orders) = bt.last.orders + 1
    /\ bt.orders[bt.last.orders + 1].status = "Filled"

\* C28: the driver never hands the risk manager a Buy signal for a symbol in
\* its open-position map, nor a Sell or CloseLong signal for a symbol absent
\* from it; the quantities it records are positive, an entry being removed as
\* soon as its quantity reaches zero.
C28_NoDuplicateEntries ==
    /\ (bt.last.op = "bar" /\ bt.last.evaluated) =>
          /\ ~(Unwrap(bt.last.signal).signal_type = "Buy" /\ bt.last.already_holding)
          /\ ~(Unwrap(bt.last.signal).signal_type \in {"Sell", "CloseLong"}
               /\ ~bt.last.already_holding)
    /\ (bt.last.op = "bar" /\ IsSome(bt.last.signal) /\ ~bt.last.evaluated) =>
          /\ Cardinality(DOMAIN bt.orders) = bt.last.orders
          /\ bt.open_positions = bt.last.open_positions
    /\ \A sym \in DOMAIN bt.open_positions : bt.open_positions[sym].quantity > 0

\* A held symbol was sold out completely and its entry removed
C28_Witness ==
    /\ OrderFilled
    /\ bt.last.evaluated
    /\ bt.last.already_holding
    /\ Unwrap(bt.last.signal).signal_type = "CloseLong"
    /\ bt.last.symbol \notin DOMAIN bt.open_positions

\* C29: when the broker refuses a bar's order the run goes on: no trade
\* record is added, the driver's open-position map and the broker's cash and
\* holdings are as before the order, and the bar's equity sample is recorded.
C29_BrokerErrorSwallowed ==
    OrderRefused =>
        /\ bt.pc = "running"
        /\ bt.stats.total_trades = bt.last.trades
        /\ Len(bt.stats.trades) = bt.last.trades
        /\ bt.open_positions = bt.last.open_positions
        /\ bt.portfolio.cash = bt.last.portfolio.cash
        /\ DOMAIN bt.portfolio.positions = DOMAIN bt.last.portfolio.positions
        /\ \A sym \in DOMAIN bt.portfolio.positions :
              /\ bt.portfolio.positions[sym].quantity
                   = bt.last.portfolio.positions[sym].quantity
              /\ bt.portfolio.positions[sym].avg_entry_price
                   = bt.last.portfolio.positions[sym].avg_entry_price
        /\ Len(bt.stats.equity_curve) = bt.last.samples + 1

\* A buy the broker refused for lack of cash, on a bar that is not the last
C29_Witness ==
    /\ OrderRefused
    /\ bt.orders[bt.last.orders + 1].side = "Buy"
    /\ bt.next <= Len(bt.all_timestamps)
    /\ Len(bt.stats.equity_curve) = bt.last.samples + 1

\* The synthesized closing records of a finished run
ClosingRecords ==
    {i \in DOMAIN bt.stats.trades : i > bt.last.trades}

\* C30: every Sell-side record of the ledger carries the realized P&L
\* close_qty x (fill_price - driver entry price), every Buy-side record
\* carries none, and every symbol left in the open-position map at the end of
\* the replay has exactly one synthesized closing record: side Sell, the
\* remaining quantity, the symbol's last close, P&L (last close - entry) x
\* quantity.
C30_LedgerPnlComplete ==
    /\ \A i \in DOMAIN bt.stats.trades :
          (bt.stats.trades[i].side = "Buy") = (bt.stats.trades[i].pnl = None)
    /\ (OrderFilled /\ bt.orders[bt.last.orders + 1].side = "Sell") =>
          /\ Len(bt.stats.trades) = bt.last.trades + 1
          /\ bt.stats.trades[Len(bt.stats.trades)].pnl =
               Some(Min(bt.stats.trades[Len(bt.stats.trades)].quantity,
                        bt.last.open_positions[bt.last.symbol].quantity)
                    * (bt.stats.trades[Len(bt.stats.trades)].price
                       - bt.last.open_positions[bt.last.symbol].entry_price))
    /\ bt.pc = "done" =>
          /\ Cardinality(ClosingRecords) = Cardinality(DOMAIN bt.open_positions)
          /\ \A sym \in DOMAIN bt.open_positions :
                \E i \in ClosingRecords :
                    bt.stats.trades[i] =
                        [symbol |-> sym,
                         side |-> "Sell",
                         quantity |-> bt.open_positions[sym].quantity,
                         price |-> data[sym][Len(data[sym])].close,
                         timestamp |-> data[sym][Len(data[sym])].timestamp,
                         signal_type |-> "CloseLong",
                         pnl |-> Some((data[sym][Len(data[sym])].close
                                       - bt.open_positions[sym].entry_price)
                                      * bt.open_positions[sym].quantity)]

\* A finished run whose ledger holds an opening buy, a sell that closed part
\* of what was held, and a synthesized closing record
C30_Witness ==
    /\ bt.pc = "done"
    /\ ClosingRecords # {}
    /\ \E i \in DOMAIN bt.stats.trades :
          /\ i <= bt.last.trades
          /\ bt.stats.trades[i].side = "Sell"
          /\ IsSome(bt.stats.trades[i].pnl)
    /\ \E i \in DOMAIN bt.stats.trades : bt.stats.trades[i].side = "Buy"

\* The latest iteration of run handed its signal to the risk manager
Evaluated(run) == run.last.op = "bar" /\ run.last.evaluated

\* The quantity the sizer computed in that evaluate_signal call, and the
\* limit check on its value
EvaluatedQuantity(run) ==
    calculate(run.last.portfolio, run.last.close, Unwrap(run.last.signal).strength)

EvaluatedLimitCheck(run) ==
    check_new_position(run.last.portfolio, EvaluatedQuantity(run) * run.last.close,
                       run.last.daily_pnl)

DailyLossBlocks(run) ==
    /\ Unwrap(run.last.signal).signal_type # "Hold"
    /\ EvaluatedQuantity(run) > 0
    /\ EvaluatedLimitCheck(run).kind = "Blocked"
    /\ EvaluatedLimitCheck(run).reason = "daily loss"

\* C37: during a backtest the risk manager's daily P&L is 0 at every
\* evaluate_signal call (nothing in the run calls update_daily_pnl), so the
\* daily-loss limit never blocks an order.
C37_DailyPnlStaysZero ==
    \A run \in {bt, twin} :
        /\ run.daily_pnl = 0
        /\ Evaluated(run) => run.last.daily_pnl = 0 /\ ~DailyLossBlocks(run)

\* A signal is evaluated after the run has lost money: the equity is below
\* the initial capital by more than the daily loss limit
C37_Witness ==
    /\ Evaluated(bt)
    /\ EvaluatedQuantity(bt) > 0
    /\ (bt.last.portfolio.equity - InitialCapital) * 100
          <= -DailyLossLimitPct * InitialCapital
    /\ bt.last.trades > 0

\* The decision of the risk manager in the latest iteration
EvaluatedDecision(run) ==
    evaluate_signal(run.last.portfolio, run.last.symbol, Unwrap(run.last.signal),
                    run.last.close, run.last.daily_pnl)

\* The latest iteration evaluated an exit signal for a symbol the run holds
ExitEvaluated(run) ==
    /\ Evaluated(run)
    /\ run.last.already_holding
    /\ Unwrap(run.last.signal).signal_type \in {"CloseLong", "Sell"}

\* C36: a held position can always be closed in a backtest: a CloseLong or
\* Sell signal for a held symbol is never rejected by the limits on opening
\* positions (position count, drawdown, exposure), so the exit reaches the
\* broker as an order.
C36_ExitNeverRejected ==
    \A run \in {bt, twin} :
        ExitEvaluated(run) =>
            /\ EvaluatedDecision(run).kind \in {"Approved", "Modified"}
            /\ Cardinality(DOMAIN run.orders) = run.last.orders + 1
-----------------------------------------------------------------------------
(* trading-risk: PositionSizer with any sizing method.  A number of shares
   that need not be whole is a fraction <<numerator, denominator>> with a
   positive denominator; the percentages of the methods are whole percents.
   `calculate` above is this function for the sizer RiskManager::new builds
   from RiskConfig::default(). *)
FracFloor(f) == FloorDiv(f[1], f[2])
FracMul(f, g) == <<f[1] * g[1], f[2] * g[2]>>
FracLt(f, g) == f[1] * g[2] < g[1] * f[2]

\* kelly_fraction = win_rate - (1 - win_rate) / avg_win_loss_ratio, in
\* percent, clamped to [0, 25]; the division needs a ratio other than 0
KellyPercent(win_rate_pct, ratio) ==
    LET raw == IF ratio > 0
               THEN <<win_rate_pct * ratio - (100 - win_rate_pct), ratio>>
               ELSE <<(100 - win_rate_pct) - win_rate_pct * ratio, -ratio>>
    IN  IF FracLt(raw, <<0, 1>>) THEN <<0, 1>>
        ELSE IF FracLt(<<25, 1>>, raw) THEN <<25, 1>>
        ELSE raw

\* base_size of PositionSizer::calculate, for current_price > 0: Some
\* fraction of shares, or None where a Decimal division by zero aborts
BaseSize(method, pf, current_price, stop_loss_price) ==
    CASE method.kind = "Fixed" -> Some(method.shares)
      [] method.kind = "FixedDollar" -> Some(<<method.amount, current_price>>)
      [] method.kind = "PercentEquity" ->
           Some(<<pf.equity * method.percent, 100 * current_price>>)
      [] method.kind = "RiskBased" ->
           IF IsSome(stop_loss_price)
           THEN IF Abs(current_price - Unwrap(stop_loss_price)) > 0
                THEN Some(<<pf.equity * method.risk_percent,
                            100 * Abs(current_price - Unwrap(stop_loss_price))>>)
                ELSE Some(<<0, 1>>)
           ELSE Some(<<pf.equity * method.risk_percent, 100 * current_price>>)
      [] method.kind = "Kelly" ->
           IF method.avg_win_loss_ratio = 0 THEN None
           ELSE Some(FracMul(<<pf.equity, 100 * current_price>>,
                             KellyPercent(method.win_rate_pct,
                                          method.avg_win_loss_ratio)))

\* PositionSizer::calculate from the adjusted size on: the caps, then floor
CappedSize(sizer, pf, current_price, adjusted_size) ==
    LET by_shares == IF IsSome(sizer.max_shares)
                     THEN Min(FracFloor(adjusted_size), Unwrap(sizer.max_shares))
                     ELSE FracFloor(adjusted_size)
        by_value == IF IsSome(sizer.max_position_value)
                    THEN Min(by_shares,
                             FloorDiv(Unwrap(sizer.max_position_value), current_price))
                    ELSE by_shares
    IN  Min(by_value, FloorDiv(pf.buying_power, current_price))

\* PositionSizer::calculate from the base size on
AdjustedSize(sizer, pf, strength, current_price, base_size) ==
    IF ~IsSome(base_size) THEN [kind |-> "Panic"]
    ELSE [kind |-> "Ok",
          size |-> CappedSize(sizer, pf, current_price,
                              IF sizer.use_signal_strength
                              THEN FracMul(Unwrap(base_size),
                                           StrengthMultiplier(strength))
                              ELSE Unwrap(base_size))]

\* PositionSizer::calculate
sizer_calculate(sizer, pf, strength, current_price, stop_loss_price) ==
    IF current_price <= 0 THEN [kind |-> "Ok", size |-> 0]
    ELSE AdjustedSize(sizer, pf, strength, current_price,
                      BaseSize(sizer.method, pf, current_price, stop_loss_price))

\* The sizers and the inputs of the calls drawn
SizingMethods ==
    {[kind |-> "Fixed", shares |-> sh] : sh \in {<<100, 1>>, <<5, 2>>}}
    \cup {[kind |-> "FixedDollar", amount |-> 100000]}
    \cup {[kind |-> "PercentEquity", percent |-> pc] : pc \in {2, 50}}
    \cup {[kind |-> "RiskBased", risk_percent |-> 1]}
    \cup {[kind |-> "Kelly", win_rate_pct |-> w, avg_win_loss_ratio |-> r] :
            w \in {50, 60}, r \in {0, 1, 2}}

\* PositionSizer::new(method), with or without with_max_shares,
\* with_max_position_value and without_signal_strength
Sizers ==
    [method : SizingMethods,
     max_shares : {None, Some(100)},
     max_position_value : {None, Some(100000)},
     use_signal_strength : BOOLEAN]

SizerEquities == {0, 1000000}
SizerBuyingPowers == {-100, 0, 3000, 500000}
SizerPrices == {-2000, 0, 2000, 4000}

\* The stop prices handed to calculate with a price: none, the price itself,
\* 1.00 below it
SizerStops(price) == {None, Some(price), Some(price - 100)}

SizerInit ==
    /\ tasks = IdleRun
    /\ ind = IdleRun
    /\ orders = <<>>
    /\ portfolio = PortfolioNew(0)
    /\ slippage_pct = DefaultSlippagePct
    /\ commission_per_share = DefaultCommission
    /\ last = NoCall
    /\ ord = IdleOrder
    /\ pos = IdlePosition
    /\ posLast = NoCall
    /\ data = <<>>
    /\ iter_order = <<>>
    /\ script = <<>>
    /\ bt = IdleRun
    /\ twin = IdleRun
    /\ \E sizer \in Sizers : sizing = [sizer |-> sizer, last |-> NoCall]
    /\ risk = IdleRun
    /\ stop = IdleRun
    /\ strat = IdleRun
    /\ tf = IdleRun
    /\ series = IdleRun

Calculate ==
    /\ \E equity \in SizerEquities, buying_power \in SizerBuyingPowers,
          strength \in SignalStrengths, price \in SizerPrices :
         \E stop_loss_price \in SizerStops(price) :
           LET pf == [PortfolioNew(equity) EXCEPT !.buying_power = buying_power,
                                                  !.cash = buying_power]
           IN  sizing' = [sizing EXCEPT !.last =
                   [op |-> "calculate",
                    equity |-> equity,
                    buying_power |-> buying_power,
                    strength |-> strength,
                    current_price |-> price,
                    stop_loss_price |-> stop_loss_price,
                    result |-> sizer_calculate(sizing.sizer, pf, strength, price,
                                               stop_loss_price)]]
    /\ UNCHANGED <<coreVars, tasks, ind, risk, stop, strat, tf, series>>

SizerNext == Calculate

SpecSizer == SizerInit /\ [][SizerNext]_vars

\* C12: for every sizing method, portfolio, signal, price and optional stop,
\* PositionSizer::calculate returns a whole number of shares; that number is
\* 0 when the price is not positive, and otherwise its value quantity x price
\* does not exceed the buying power.
C12_SizeWithinBuyingPower ==
    sizing.last.op = "calculate" =>
      /\ sizing.last.result.kind = "Ok"
      /\ sizing.last.result.size \in Int
      /\ sizing.last.current_price <= 0 => sizing.last.result.size = 0
      /\ sizing.last.current_price > 0 =>
           sizing.last.result.size * sizing.last.current_price
             <= sizing.last.buying_power

-----------------------------------------------------------------------------
(* trading-risk: a RiskManager built from RiskConfig::default(), called with
   portfolio snapshots.  A snapshot is what Broker::get_account returns: the
   PaperBroker's portfolio, or the record AlpacaBroker builds from the
   account's cash and equity strings (initial_capital = peak_equity = equity,
   0 for a string that does not parse). *)

\* PortfolioLimits::should_halt_trading
should_halt_trading(pf, daily_pnl) ==
    IF IF pf.initial_capital > 0
       THEN daily_pnl * 100 <= -DailyLossLimitPct * pf.initial_capital
       ELSE 0 <= -DailyLossLimitPct
    THEN Some("daily loss")
    ELSE IF IF pf.peak_equity = 0 THEN 0 >= MaxDrawdownPct
            ELSE RatioGe(drawdown_num(pf), drawdown_den(pf), MaxDrawdownPct)
    THEN Some("drawdown")
    ELSE None

HeldPositions ==
    {<<>>,
     [s \in {"A"} |-> PositionNew(100, 2000)],
     [i \in 1..MaxPositions |-> PositionNew(1, 2000)]}

SnapshotChoices ==
    {[cash |-> c, buying_power |-> c, equity |-> e, positions |-> ps,
      total_unrealized_pnl |-> 0, total_realized_pnl |-> 0,
      initial_capital |-> ic, peak_equity |-> pk] :
        c \in {0, 500000, 2000000}, e \in {0, 800000, 1000000},
        ps \in HeldPositions, ic \in {0, 1000000}, pk \in {0, 1000000}}

\* peak_equity is never below the equity
\* Portfolios whose cash is just above the reserve, so that a 2% position
\* does not fit above it
LowCashSnapshots ==
    {[cash |-> c, buying_power |-> c, equity |-> 1000000, positions |-> <<>>,
      total_unrealized_pnl |-> 0, total_realized_pnl |-> 0,
      initial_capital |-> 1000000, peak_equity |-> 1000000] :
        c \in {101000, 110000}}

\* A portfolio of 10,000.00 with 8,900.00 in one position and 1,100.00 in
\* cash: close to the cash reserve and above the exposure limit at once
ExposedSnapshots ==
    {[cash |-> 110000, buying_power |-> 110000, equity |-> 1000000,
      positions |-> [s \in {"B"} |-> PositionNew(445, 2000)],
      total_unrealized_pnl |-> 0, total_realized_pnl |-> 0,
      initial_capital |-> 1000000, peak_equity |-> 1000000]}

Snapshots ==
    {pf \in SnapshotChoices : pf.peak_equity >= pf.equity}
    \cup LowCashSnapshots \cup ExposedSnapshots

DailyPnls == {0, -20000, -30000, -50000}
PositionValues == {10000, 450000, 900000}
RiskSignals == {MkSignal(t, "Moderate") : t \in SignalTypes}

RiskInit ==
    /\ tasks = IdleRun
    /\ ind = IdleRun
    /\ orders = <<>>
    /\ portfolio = PortfolioNew(0)
    /\ slippage_pct = DefaultSlippagePct
    /\ commission_per_share = DefaultCommission
    /\ last = NoCall
    /\ ord = IdleOrder
    /\ pos = IdlePosition
    /\ posLast = NoCall
    /\ data = <<>>
    /\ iter_order = <<>>
    /\ script = <<>>
    /\ bt = IdleRun
    /\ twin = IdleRun
    /\ sizing = IdleRun
    /\ risk = [daily_pnl |-> 0, last |-> NoCall]
    /\ stop = IdleRun
    /\ strat = IdleRun
    /\ tf = IdleRun
    /\ series = IdleRun

\* RiskManager::update_daily_pnl
UpdateDailyPnl ==
    /\ \E pnl \in DailyPnls :
         risk' = [daily_pnl |-> pnl, last |-> [op |-> "update_daily_pnl"]]
    /\ UNCHANGED <<coreVars, tasks, ind, sizing, stop, strat, tf, series>>

\* RiskManager::reset_daily_pnl
ResetDailyPnl ==
    /\ risk' = [daily_pnl |-> 0, last |-> [op |-> "reset_daily_pnl"]]
    /\ UNCHANGED <<coreVars, tasks, ind, sizing, stop, strat, tf, series>>

\* RiskManager::should_halt
ShouldHalt ==
    /\ \E pf \in Snapshots :
         risk' = [risk EXCEPT !.last =
             [op |-> "should_halt", portfolio |-> pf,
              result |-> should_halt_trading(pf, risk.daily_pnl)]]
    /\ UNCHANGED <<coreVars, tasks, ind, sizing, stop, strat, tf, series>>

\* PortfolioLimits::check_new_position with the manager's daily_pnl
CheckNewPosition ==
    /\ \E pf \in Snapshots, position_value \in PositionValues :
         risk' = [risk EXCEPT !.last =
             [op |-> "check_new_position", portfolio |-> pf,
              position_value |-> position_value,
              result |-> check_new_position(pf, position_value, risk.daily_pnl)]]
    /\ UNCHANGED <<coreVars, tasks, ind, sizing, stop, strat, tf, series>>

\* RiskManager::evaluate_signal
EvaluateSignal ==
    /\ \E pf \in Snapshots, signal \in RiskSignals, price \in MarketPrices :
         risk' = [risk EXCEPT !.last =
             [op |-> "evaluate_signal", portfolio |-> pf, signal |-> signal,
              current_price |-> price,
              result |-> evaluate_signal(pf, "A", signal, price, risk.daily_pnl)]]
    /\ UNCHANGED <<coreVars, tasks, ind, sizing, stop, strat, tf, series>>

RiskNext ==
    UpdateDailyPnl \/ ResetDailyPnl \/ ShouldHalt \/ CheckNewPosition \/ EvaluateSignal

SpecRisk == RiskInit /\ [][RiskNext]_vars

\* The daily P&L in percent of a positive initial capital is at or below
\* -daily_loss_limit_pct, for the portfolio of the last call
DailyLossReached ==
    /\ risk.last.op \in {"should_halt", "check_new_position", "evaluate_signal"}
    /\ risk.last.portfolio.initial_capital > 0
    /\ risk.daily_pnl * 100 <= -DailyLossLimitPct * risk.last.portfolio.initial_capital

C14_CheckIsTotal ==
    risk.last.op = "check_new_position" =>
      risk.last.result.kind \in {"Allowed", "Blocked", "Reduced"}

\* The checks of check_new_position, each taken on its own, for the call
\* logged last
HardBlockFires ==
    LET pf == risk.last.portfolio
    IN  \/ (IF pf.initial_capital > 0
            THEN risk.daily_pnl * 100 <= -DailyLossLimitPct * pf.initial_capital
            ELSE 0 <= -DailyLossLimitPct)
        \/ (IF pf.peak_equity = 0 THEN 0 >= MaxDrawdownPct
            ELSE RatioGe(drawdown_num(pf), drawdown_den(pf), MaxDrawdownPct))
        \/ position_count(pf) >= MaxPositions

MinCashFires ==
    risk.last.portfolio.cash - risk.last.position_value < MinCash

ExposureFires ==
    RatioGt((total_market_value(risk.last.portfolio) + risk.last.position_value) * 100,
            risk.last.portfolio.equity, MaxExposurePct)

PositionSizeFires ==
    RatioGt(risk.last.position_value * 100, risk.last.portfolio.equity,
            MaxPositionPct)

ConcentrationFires ==
    RatioGt(risk.last.position_value * 100, risk.last.portfolio.equity,
            MaxConcentrationPct)

MinCashCap == [kind |-> "Reduced",
               max_num |-> risk.last.portfolio.cash - MinCash, max_den |-> 1]
ExposureCap == [kind |-> "Reduced",
                max_num |-> risk.last.portfolio.equity * MaxExposurePct
                              - 100 * total_market_value(risk.last.portfolio),
                max_den |-> 100]
PositionSizeCap == [kind |-> "Reduced",
                    max_num |-> risk.last.portfolio.equity * MaxPositionPct,
                    max_den |-> 100]
ConcentrationCap == [kind |-> "Reduced",
                     max_num |-> risk.last.portfolio.equity * MaxConcentrationPct,
                     max_den |-> 100]

\* C27: check_new_position returns the outcome of the first check that fires
\* in the order daily loss, drawdown, open-position count, minimum cash,
\* exposure, position size, concentration: a hard block (daily loss, drawdown,
\* position count) wins over every Reduced outcome, and among the soft caps
\* minimum cash precedes exposure, which precedes position size, which
\* precedes concentration.  The caps past minimum cash divide by the equity
\* and are compared for a portfolio whose equity is not zero.
C27_FirstCheckWins ==
    risk.last.op = "check_new_position" =>
      LET r == risk.last.result
          soft == risk.last.portfolio.equity # 0
      IN  /\ HardBlockFires =>
               r.kind = "Blocked"
               /\ r.reason \in {"daily loss", "drawdown", "max positions"}
          /\ ~HardBlockFires /\ MinCashFires =>
               \/ r = MinCashCap
               \/ r.kind = "Blocked" /\ r.reason = "cash reserve"
          /\ ~HardBlockFires /\ ~MinCashFires /\ soft /\ ExposureFires =>
               \/ r = ExposureCap
               \/ r.kind = "Blocked" /\ r.reason = "max exposure"
          /\ ~HardBlockFires /\ ~MinCashFires /\ soft /\ ~ExposureFires
               /\ PositionSizeFires => r = PositionSizeCap
          /\ ~HardBlockFires /\ ~MinCashFires /\ soft /\ ~ExposureFires
               /\ ~PositionSizeFires /\ ConcentrationFires => r = ConcentrationCap
          /\ ~HardBlockFires /\ ~MinCashFires /\ soft /\ ~ExposureFires
               /\ ~PositionSizeFires /\ ~ConcentrationFires => r.kind = "Allowed"

\* The minimum-cash, exposure and position-size caps all fire on one call and
\* the minimum-cash cap is the one returned
C27_Witness ==
    /\ risk.last.op = "check_new_position"
    /\ risk.last.portfolio.equity # 0
    /\ ~HardBlockFires
    /\ MinCashFires /\ ExposureFires /\ PositionSizeFires
    /\ risk.last.result = MinCashCap
    /\ MinCashCap # ExposureCap
    /\ MinCashCap # PositionSizeCap

\* The quantity the sizer computes, the limit check on its value and the
\* quantity left by a Reduced check, for the evaluate_signal call logged last
SizerQuantity ==
    calculate(risk.last.portfolio, risk.last.current_price, risk.last.signal.strength)

SizedLimitCheck ==
    check_new_position(risk.last.portfolio, SizerQuantity * risk.last.current_price,
                       risk.daily_pnl)

ReducedQuantity ==
    FloorDiv(SizedLimitCheck.max_num, SizedLimitCheck.max_den * risk.last.current_price)

\* C26: evaluate_signal returns Rejected for a Hold signal, for a computed
\* quantity <= 0, for a Blocked limit check and for a Reduced check whose
\* floor(max_size / price) is 0; otherwise it returns Approved with the
\* sizer's quantity (limits Allowed) or Modified with floor(max_size / price)
\* (limits Reduced); every Approved or Modified decision carries a market
\* order whose side is Buy for Buy/CloseShort and Sell for Sell/CloseLong and
\* whose quantity is positive.
C26_DecisionCases ==
    risk.last.op = "evaluate_signal" =>
      LET r == risk.last.result
          t == risk.last.signal.signal_type
      IN  /\ r.kind \in {"Rejected", "Approved", "Modified"}
          /\ t = "Hold" => r.kind = "Rejected"
          /\ t # "Hold" /\ SizerQuantity <= 0 => r.kind = "Rejected"
          /\ t # "Hold" /\ SizerQuantity > 0 =>
                /\ SizedLimitCheck.kind = "Blocked" => r.kind = "Rejected"
                /\ SizedLimitCheck.kind = "Reduced" =>
                      IF ReducedQuantity = 0 THEN r.kind = "Rejected"
                      ELSE r.kind = "Modified" /\ r.order.quantity = ReducedQuantity
                /\ SizedLimitCheck.kind = "Allowed" =>
                      r.kind = "Approved" /\ r.order.quantity = SizerQuantity
          /\ r.kind \in {"Approved", "Modified"} =>
                /\ r.order.order_type = "Market"
                /\ r.order.symbol = "A"
                /\ r.order.quantity > 0
                /\ t \in {"Buy", "CloseShort"} => r.order.side = "Buy"
                /\ t \in {"Sell", "CloseLong"} => r.order.side = "Sell"

\* A CloseLong signal whose sized position does not fit above the cash
\* reserve comes back as a Modified sell order for the reduced quantity
C26_Witness ==
    /\ risk.last.op = "evaluate_signal"
    /\ risk.last.signal.signal_type = "CloseLong"
    /\ SizerQuantity > 0
    /\ SizedLimitCheck.kind = "Reduced"
    /\ risk.last.result.kind = "Modified"
    /\ risk.last.result.order.side = "Sell"
    /\ risk.last.result.order.quantity = ReducedQuantity
    /\ ReducedQuantity < SizerQuantity

\* C35: every order the risk manager lets through, Approved or Modified,
\* respects all portfolio caps at the evaluated price: check_new_position on
\* the value of the final order (its quantity x the price) returns Allowed.
C35_FinalOrderWithinCaps ==
    (risk.last.op = "evaluate_signal"
       /\ risk.last.result.kind \in {"Approved", "Modified"}) =>
      check_new_position(risk.last.portfolio,
                         risk.last.result.order.quantity * risk.last.current_price,
                         risk.daily_pnl).kind = "Allowed"

-----------------------------------------------------------------------------
(* trading-core: Timeframe, its Display and FromStr.  A string is the
   sequence of its characters. *)
Timeframes ==
    {"Minute1", "Minute5", "Minute15", "Minute30", "Hour1", "Hour4",
     "Daily", "Weekly", "Monthly"}

\* impl Display for Timeframe
to_string(t) ==
    CASE t = "Minute1" -> <<"1", "m">>
      [] t = "Minute5" -> <<"5", "m">>
      [] t = "Minute15" -> <<"1", "5", "m">>
      [] t = "Minute30" -> <<"3", "0", "m">>
      [] t = "Hour1" -> <<"1", "h">>
      [] t = "Hour4" -> <<"4", "h">>
      [] t = "Daily" -> <<"1", "d">>
      [] t = "Weekly" -> <<"1", "w">>
      [] t = "Monthly" -> <<"1", "M">>

UppercaseLetters ==
    <<"A", "B", "C", "D", "E", "F", "G", "H", "I", "J", "K", "L", "M",
      "N", "O", "P", "Q", "R", "S", "T", "U", "V", "W", "X", "Y", "Z">>
LowercaseLetters ==
    <<"a", "b", "c", "d", "e", "f", "g", "h", "i", "j", "k", "l", "m",
      "n", "o", "p", "q", "r", "s", "t", "u", "v", "w", "x", "y", "z">>

\* str::to_lowercase, on ASCII text
to_lowercase(text) ==
    [i \in DOMAIN text |->
        IF \E k \in DOMAIN UppercaseLetters : UppercaseLetters[k] = text[i]
        THEN LowercaseLetters[CHOOSE k \in DOMAIN UppercaseLetters :
                                UppercaseLetters[k] = text[i]]
        ELSE text[i]]

\* The arms of the match in from_str, in source order
FromStrArms ==
    <<[patterns |-> {<<"1", "m">>, <<"1", "m", "i", "n">>, <<"m", "i", "n", "u", "t", "e">>},
       timeframe |-> "Minute1"],
      [patterns |-> {<<"5", "m">>, <<"5", "m", "i", "n">>},
       timeframe |-> "Minute5"],
      [patterns |-> {<<"1", "5", "m">>, <<"1", "5", "m", "i", "n">>},
       timeframe |-> "Minute15"],
      [patterns |-> {<<"3", "0", "m">>, <<"3", "0", "m", "i", "n">>},
       timeframe |-> "Minute30"],
      [patterns |-> {<<"1", "h">>, <<"1", "h", "o", "u", "r">>, <<"h", "o", "u", "r">>},
       timeframe |-> "Hour1"],
      [patterns |-> {<<"4", "h">>, <<"4", "h", "o", "u", "r">>},
       timeframe |-> "Hour4"],
      [patterns |-> {<<"1", "d">>, <<"d", "a", "y">>, <<"d", "a", "i", "l", "y">>},
       timeframe |-> "Daily"],
      [patterns |-> {<<"1", "w">>, <<"w", "e", "e", "k">>, <<"w", "e", "e", "k", "l", "y">>},
       timeframe |-> "Weekly"],
      [patterns |-> {<<"1", "M">>, <<"m", "o", "n", "t", "h">>, <<"m", "o", "n", "t", "h", "l", "y">>},
       timeframe |-> "Monthly"]>>

\* impl FromStr for Timeframe: the first arm that matches the lowercased text
from_str(text) ==
    LET lowered == to_lowercase(text)
        hits == {k \in DOMAIN FromStrArms : lowered \in FromStrArms[k].patterns}
    IN  IF hits = {} THEN [kind |-> "Err"]
        ELSE [kind |-> "Ok",
              timeframe |-> FromStrArms[CHOOSE k \in hits :
                                          \A j \in hits : k <= j].timeframe]

\* Texts handed to from_str besides the display strings
InputTexts ==
    {<<"1", "m", "i", "n">>,
     <<"M", "i", "n", "u", "t", "e">>,
     <<"5", "M", "I", "N">>,
     <<"1", "H">>,
     <<"h", "o", "u", "r">>,
     <<"4", "h", "o", "u", "r">>,
     <<"D", "a", "i", "l", "y">>,
     <<"1", "D">>,
     <<"w", "e", "e", "k">>,
     <<"1", "M">>,
     <<"m", "o", "n", "t", "h">>,
     <<"M", "o", "n", "t", "h", "l", "y">>,
     <<"2", "h">>,
     <<>>}

TimeframeInit ==
    /\ tasks = IdleRun
    /\ ind = IdleRun
    /\ orders = <<>>
    /\ portfolio = PortfolioNew(0)
    /\ slippage_pct = DefaultSlippagePct
    /\ commission_per_share = DefaultCommission
    /\ last = NoCall
    /\ ord = IdleOrder
    /\ pos = IdlePosition
    /\ posLast = NoCall
    /\ data = <<>>
    /\ iter_order = <<>>
    /\ script = <<>>
    /\ bt = IdleRun
    /\ twin = IdleRun
    /\ sizing = IdleRun
    /\ risk = IdleRun
    /\ stop = IdleRun
    /\ strat = IdleRun
    /\ \E t \in Timeframes :
         tf = [value |-> t, text |-> None, displayed |-> FALSE, parsed |-> None]
    /\ series = IdleRun

\* format!("{}", value), i.e. value.to_string()
DisplayTimeframe ==
    /\ tf' = [tf EXCEPT !.text = Some(to_string(tf.value)),
                        !.displayed = TRUE, !.parsed = None]
    /\ UNCHANGED <<coreVars, tasks, ind, sizing, risk, stop, strat, series>>

\* A text from elsewhere (configuration, command line)
ReadText ==
    /\ \E text \in InputTexts :
         tf' = [tf EXCEPT !.text = Some(text), !.displayed = FALSE, !.parsed = None]
    /\ UNCHANGED <<coreVars, tasks, ind, sizing, risk, stop, strat, series>>

\* text.parse::<Timeframe>()
FromStr ==
    /\ IsSome(tf.text)
    /\ tf' = [tf EXCEPT !.parsed = Some(from_str(Unwrap(tf.text)))]
    /\ UNCHANGED <<coreVars, tasks, ind, sizing, risk, stop, strat, series>>

TimeframeNext == DisplayTimeframe \/ ReadText \/ FromStr

SpecTimeframe == TimeframeInit /\ [][TimeframeNext]_vars

\* C17: display followed by parse is the identity: parsing the canonical
\* string of a timeframe yields that timeframe again, and distinct timeframes
\* have distinct canonical strings.
C17_DisplayParseIdentity ==
    /\ (tf.displayed /\ IsSome(tf.parsed)) =>
          Unwrap(tf.parsed) = [kind |-> "Ok", timeframe |-> tf.value]
    /\ \A t1, t2 \in Timeframes : to_string(t1) = to_string(t2) => t1 = t2

-----------------------------------------------------------------------------
(* trading-core: BarSeries, a deque of bars with an optional capacity
   (0 = unlimited).  series.pushed is the history of every bar handed to
   push, kept for the statements below; it is not a field of the struct. *)
MaxPushes == 4

Capacities == 0..3

\* BarSeries::new and BarSeries::with_capacity
BarSeriesNew == [bars |-> <<>>, capacity |-> 0]
with_capacity(capacity) == [bars |-> <<>>, capacity |-> capacity]

\* VecDeque::pop_front / pop_back on a non-empty deque
pop_front(bars) == SubSeq(bars, 2, Len(bars))
pop_back(bars) == SubSeq(bars, 1, Len(bars) - 1)

\* Variant: at capacity the newest bar is dropped instead of the oldest
push_evict_newest(s, bar) ==
    [s EXCEPT !.bars =
        Append(IF s.capacity > 0 /\ Len(s.bars) >= s.capacity
               THEN pop_back(s.bars) ELSE s.bars, bar)]

\* BarSeries::push
push(s, bar) ==
    [s EXCEPT !.bars =
        Append(IF s.capacity > 0 /\ Len(s.bars) >= s.capacity
               THEN pop_front(s.bars) ELSE s.bars, bar)]

\* BarSeries::extend: push each bar in turn
RECURSIVE extend(_, _)
extend(s, bars) ==
    IF bars = <<>> THEN s
    ELSE extend(push(s, Head(bars)), Tail(bars))

\* The last n elements of a sequence (all of it when it is shorter)
last_n(seq, n) == SubSeq(seq, Max(Len(seq) - n, 0) + 1, Len(seq))

\* Arguments of extend
BarBatches == UNION {[1..n -> Bars] : n \in 0..2}

SeriesInit ==
    /\ tasks = IdleRun
    /\ ind = IdleRun
    /\ orders = <<>>
    /\ portfolio = PortfolioNew(0)
    /\ slippage_pct = DefaultSlippagePct
    /\ commission_per_share = DefaultCommission
    /\ last = NoCall
    /\ ord = IdleOrder
    /\ pos = IdlePosition
    /\ posLast = NoCall
    /\ data = <<>>
    /\ iter_order = <<>>
    /\ script = <<>>
    /\ bt = IdleRun
    /\ twin = IdleRun
    /\ sizing = IdleRun
    /\ risk = IdleRun
    /\ stop = IdleRun
    /\ strat = IdleRun
    /\ tf = IdleRun
    /\ \E capacity \in Capacities :
         series = [s |-> IF capacity = 0 THEN BarSeriesNew
                         ELSE with_capacity(capacity),
                   pushed |-> <<>>]

Push ==
    /\ Len(series.pushed) < MaxPushes
    /\ \E bar \in Bars :
         series' = [s |-> push(series.s, bar),
                    pushed |-> Append(series.pushed, bar)]
    /\ UNCHANGED <<coreVars, tasks, ind, sizing, risk, stop, strat, tf>>

Extend ==
    /\ \E bars \in BarBatches :
         /\ Len(series.pushed) + Len(bars) <= MaxPushes
         /\ series' = [s |-> extend(series.s, bars),
                       pushed |-> series.pushed \o bars]
    /\ UNCHANGED <<coreVars, tasks, ind, sizing, risk, stop, strat, tf>>

SeriesNext == Push \/ Extend

SpecSeries == SeriesInit /\ [][SeriesNext]_vars

\* C18: a series created with capacity c > 0 holds at most c bars, the last
\* pushed bar is at the back, and the content is exactly the most recent
\* min(n, c) pushed bars in push order.
C18_KeepsMostRecent ==
    series.s.capacity > 0 =>
      /\ Len(series.s.bars) <= series.s.capacity
      /\ Len(series.s.bars) = Min(Len(series.pushed), series.s.capacity)
      /\ series.s.bars = last_n(series.pushed, series.s.capacity)
      /\ series.pushed # <<>> =>
            series.s.bars[Len(series.s.bars)] = series.pushed[Len(series.pushed)]

\* More bars were pushed than the capacity holds, and the evicted bar differs
\* from the ones kept
C18_Witness ==
    /\ series.s.capacity > 1
    /\ Len(series.pushed) > series.s.capacity
    /\ series.pushed[1] # series.pushed[Len(series.pushed)]
    /\ series.s.bars = last_n(series.pushed, series.s.capacity)

\* C19: the bars of a series are non-decreasing in timestamp after any
\* sequence of push and extend calls.
C19_TimestampsNonDecreasing ==
    \A i \in 1..(Len(series.s.bars) - 1) :
        series.s.bars[i].timestamp <= series.s.bars[i + 1].timestamp

-----------------------------------------------------------------------------
(* trading-risk: StopLossManager and the trailing stop of one position.  The
   caller keeps the position's stop and hands it back on every update. *)
StopLossMethods ==
    {[kind |-> "FixedPercent", percent |-> 2],
     [kind |-> "Atr", multiplier |-> 2],
     [kind |-> "FixedDollar", amount |-> 500],
     [kind |-> "TrailingPercent", percent |-> 5],
     [kind |-> "TrailingPercent", percent |-> 10],
     [kind |-> "TrailingAtr", multiplier |-> 2]}

AtrValues == {100, 300}
TrailPrices == {9000, 10000, 11000}
InitialStops == {9500, 10500}

\* Variant: the stop follows the price in both directions
update_trailing_stop_follow(method, current_atr, current_stop, current_price, side) ==
    IF method.kind = "TrailingPercent"
    THEN IF side = "Buy"
         THEN current_price - DecDiv(current_price * method.percent, 100)
         ELSE current_price + DecDiv(current_price * method.percent, 100)
    ELSE IF method.kind = "TrailingAtr" /\ IsSome(current_atr)
    THEN IF side = "Buy"
         THEN current_price - Unwrap(current_atr) * method.multiplier
         ELSE current_price + Unwrap(current_atr) * method.multiplier
    ELSE current_stop

\* StopLossManager::update_trailing_stop
update_trailing_stop(method, current_atr, current_stop, current_price, side) ==
    IF method.kind = "TrailingPercent"
    THEN IF side = "Buy"
         THEN Max(current_price - DecDiv(current_price * method.percent, 100),
                  current_stop)
         ELSE Min(current_price + DecDiv(current_price * method.percent, 100),
                  current_stop)
    ELSE IF method.kind = "TrailingAtr"
    THEN IF IsSome(current_atr)
         THEN IF side = "Buy"
              THEN Max(current_price - Unwrap(current_atr) * method.multiplier,
                       current_stop)
              ELSE Min(current_price + Unwrap(current_atr) * method.multiplier,
                       current_stop)
         ELSE current_stop
    ELSE current_stop

StopInit ==
    /\ tasks = IdleRun
    /\ ind = IdleRun
    /\ orders = <<>>
    /\ portfolio = PortfolioNew(0)
    /\ slippage_pct = DefaultSlippagePct
    /\ commission_per_share = DefaultCommission
    /\ last = NoCall
    /\ ord = IdleOrder
    /\ pos = IdlePosition
    /\ posLast = NoCall
    /\ data = <<>>
    /\ iter_order = <<>>
    /\ script = <<>>
    /\ bt = IdleRun
    /\ twin = IdleRun
    /\ sizing = IdleRun
    /\ risk = IdleRun
    /\ \E method \in StopLossMethods, side \in {"Buy", "Sell"},
          current_stop \in InitialStops :
         stop = [method |-> method, current_atr |-> None, side |-> side,
                 current_stop |-> current_stop, last |-> NoCall]
    /\ strat = IdleRun
    /\ tf = IdleRun
    /\ series = IdleRun

\* StopLossManager::update_atr
UpdateAtr ==
    /\ \E atr \in AtrValues :
         stop' = [stop EXCEPT !.current_atr = Some(atr),
                              !.last = [op |-> "update_atr"]]
    /\ UNCHANGED <<coreVars, tasks, ind, sizing, risk, strat, tf, series>>

\* stop = manager.update_trailing_stop(stop, price, side)
UpdateTrailingStop ==
    /\ \E current_price \in TrailPrices :
         stop' = [stop EXCEPT
                    !.current_stop =
                       update_trailing_stop(stop.method, stop.current_atr,
                                            stop.current_stop, current_price,
                                            stop.side),
                    !.last = [op |-> "update_trailing_stop",
                              current_stop |-> stop.current_stop,
                              current_price |-> current_price]]
    /\ UNCHANGED <<coreVars, tasks, ind, sizing, risk, strat, tf, series>>

StopNext == UpdateAtr \/ UpdateTrailingStop

SpecStop == StopInit /\ [][StopNext]_vars

IsTrailing ==
    \/ stop.method.kind = "TrailingPercent"
    \/ stop.method.kind = "TrailingAtr" /\ IsSome(stop.current_atr)

\* C20: every update_trailing_stop call leaves a long position's stop (side
\* Buy) no lower and a short position's stop (side Sell) no higher than the
\* stop handed in; for non-trailing methods, and for TrailingAtr with no
\* cached ATR, the stop is returned unchanged.
C20_TrailingStopMonotonic ==
    stop.last.op = "update_trailing_stop" =>
      /\ stop.side = "Buy" => stop.current_stop >= stop.last.current_stop
      /\ stop.side = "Sell" => stop.current_stop <= stop.last.current_stop
      /\ ~IsTrailing => stop.current_stop = stop.last.current_stop

\* A long position whose stop was raised earlier and is held when the price
\* falls back
C20_Witness ==
    /\ stop.last.op = "update_trailing_stop"
    /\ stop.method = [kind |-> "TrailingPercent", percent |-> 5]
    /\ stop.side = "Buy"
    /\ stop.current_stop = 10450
    /\ stop.last.current_price = 9000
    /\ stop.last.current_stop = 10450

-----------------------------------------------------------------------------
(* trading-strategies: the registry and the four strategies.  Indicator
   values are floating-point numbers computed from the closes; on_bar's
   control flow depends on them only through the comparisons it makes, so a
   bar is abstracted to the length of the series and a reading that says
   which comparison holds on it. *)
MaxOnBarCalls == 4
MaxSeriesLen == 4

Periods == 0..3
MomentumPeriods == 0..2
SymbolLists == {<<>>, <<"A">>}

MACrossoverConfigs ==
    [fast_period : Periods, slow_period : Periods, use_ema : BOOLEAN]
MeanReversionConfigs ==
    [bb_period : Periods, bb_std_dev : {0, 2}, entry_threshold_pct : {5, 60},
     allow_short : BOOLEAN]
MomentumConfigs ==
    [momentum_period : MomentumPeriods, fast_ema_period : MomentumPeriods,
     slow_ema_period : MomentumPeriods, rsi_period : MomentumPeriods,
     allow_short : BOOLEAN]
RsiConfigs ==
    [period : Periods, overbought : {70, 110}, oversold : {30, 80},
     allow_short : BOOLEAN]

\* What the comparisons of on_bar find on the newest bar
Readings ==
    {"none", "long_entry", "short_entry", "exit_long", "exit_short",
     "no_momentum", "no_trend", "weak_above", "weak_below"}

\* What a reading says of the two moving averages of the MA crossover
\* strategy: the fast one is above the slow one by at least signal_threshold
\* (long_entry) or by less (weak_above), below it likewise, or level with it
MaRelation(reading) ==
    CASE reading \in {"long_entry", "weak_above"} -> "above"
      [] reading \in {"short_entry", "weak_below"} -> "below"
      [] OTHER -> "level"

\* impl StrategyConfig for MACrossoverConfig
MACrossoverConfig_validate(config, symbols) ==
    /\ ~(config.fast_period >= config.slow_period)
    /\ ~(config.fast_period = 0)
    /\ ~(symbols = <<>>)

\* impl StrategyConfig for MeanReversionConfig
MeanReversionConfig_validate(config, symbols) ==
    /\ ~(config.bb_period < 2)
    /\ ~(config.bb_std_dev <= 0)
    /\ ~(config.entry_threshold_pct < 0 \/ config.entry_threshold_pct > 50)
    /\ ~(symbols = <<>>)

\* impl StrategyConfig for MomentumConfig
MomentumConfig_validate(config, symbols) ==
    /\ ~(config.momentum_period = 0)
    /\ ~(config.fast_ema_period >= config.slow_ema_period)
    /\ ~(config.rsi_period = 0)
    /\ ~(symbols = <<>>)

\* impl StrategyConfig for RsiConfig
RsiConfig_validate(config, symbols) ==
    /\ ~(config.period < 2)
    /\ ~(config.overbought <= config.oversold)
    /\ ~(config.overbought > 100 \/ config.oversold < 0)
    /\ ~(symbols = <<>>)

\* The fields the four strategy structs have in common; prev stands for
\* prev_fast/prev_slow (MA crossover) and prev_rsi (RSI) being Some, and
\* prev_rel for how prev_fast compares with prev_slow.  MACrossoverStrategy
\* has no position field: its position below is never written.
StrategyNew(name, config, symbols) ==
    [name |-> name, config |-> config, symbols |-> symbols,
     position |-> "Flat", prev |-> FALSE, prev_rel |-> "none",
     bars_processed |-> 0, signals_generated |-> 0]

\* The constructors; BollingerBands::with_params and Rsi::new assert
NewPanics(name, config) ==
    \/ name = "mean_reversion" /\ ~(config.bb_period > 1 /\ config.bb_std_dev > 0)
    \/ name = "rsi" /\ ~(config.period > 0)

Validates(name, config, symbols) ==
    CASE name = "ma_crossover" -> MACrossoverConfig_validate(config, symbols)
      [] name = "mean_reversion" -> MeanReversionConfig_validate(config, symbols)
      [] name = "momentum" -> MomentumConfig_validate(config, symbols)
      [] name = "rsi" -> RsiConfig_validate(config, symbols)

StrategyNames == {"ma_crossover", "mean_reversion", "momentum", "rsi"}

\* StrategyRegistry::create
create(name, config, symbols) ==
    IF name \notin StrategyNames THEN [kind |-> "NotFound"]
    ELSE IF ~Validates(name, config, symbols) THEN [kind |-> "InvalidConfig"]
    ELSE IF NewPanics(name, config) THEN [kind |-> "Panic"]
    ELSE [kind |-> "Ok", strategy |-> StrategyNew(name, config, symbols)]

\* Strategy::warmup_period of the four implementations
warmup_period(self) ==
    CASE self.name = "ma_crossover" -> self.config.slow_period + 1
      [] self.name = "mean_reversion" -> self.config.bb_period
      [] self.name = "momentum" ->
           Max(Max(self.config.slow_ema_period, self.config.momentum_period + 1),
               self.config.rsi_period + 1)
      [] self.name = "rsi" -> self.config.period + 1

\* The ways on_bar ends
Quiet(self) == [self |-> self, result |-> [kind |-> "None"]]
Emit(self, position, signal_type) ==
    [self |-> [self EXCEPT !.position = position,
                           !.signals_generated = @ + 1],
     result |-> [kind |-> "Some", signal_type |-> signal_type]]
Aborted(self) == [self |-> self, result |-> [kind |-> "Panic"]]
Remembering(outcome) == [outcome EXCEPT !.self.prev = TRUE]

\* The match on self.position of the mean reversion and momentum strategies
PositionMatch(self, reading) ==
    CASE self.position = "Flat" ->
           IF reading = "long_entry" THEN Emit(self, "Long", "Buy")
           ELSE IF self.config.allow_short /\ reading = "short_entry"
           THEN Emit(self, "Short", "Sell")
           ELSE Quiet(self)
      [] self.position = "Long" ->
           IF reading = "exit_long" THEN Emit(self, "Flat", "CloseLong")
           ELSE Quiet(self)
      [] self.position = "Short" ->
           IF reading = "exit_short" THEN Emit(self, "Flat", "CloseShort")
           ELSE Quiet(self)

\* MACrossoverStrategy::on_bar after the warmup check
MACrossover_signal(self, reading) ==
    IF self.config.fast_period = 0 \/ self.config.slow_period = 0
    THEN Aborted(self)              \* Ema::new / Sma::new assert period > 0
    ELSE [Remembering(
            IF self.prev /\ self.prev_rel # "above" /\ reading = "long_entry"
            THEN Emit(self, self.position, "Buy")
            ELSE IF self.prev /\ self.prev_rel # "below" /\ reading = "short_entry"
            THEN Emit(self, self.position, "Sell")
            ELSE Quiet(self))
          EXCEPT !.self.prev_rel = MaRelation(reading)]

\* MomentumStrategy::on_bar after the warmup check
Momentum_signal(self, reading) ==
    IF reading = "no_momentum" THEN Quiet(self)     \* calculate_momentum(..)?
    ELSE IF self.config.fast_ema_period = 0 \/ self.config.slow_ema_period = 0
    THEN Aborted(self)              \* calculate_trend: Ema::new asserts period > 0
    ELSE IF reading = "no_trend" THEN Quiet(self)   \* calculate_trend(..)?
    ELSE IF self.config.rsi_period = 0
    THEN Aborted(self)              \* Rsi::new asserts period > 0
    ELSE Remembering(PositionMatch(self, reading))  \* last_momentum, last_rsi, last_trend

\* RsiStrategy::on_bar after the warmup check
Rsi_signal(self, reading) ==
    Remembering(IF self.prev THEN PositionMatch(self, reading) ELSE Quiet(self))

\* Variant: the RSI strategy acts on a series shorter than its warmup period
RsiStrategy_on_bar_no_warmup(self, len, reading) ==
    Rsi_signal(self, reading)

MACrossoverStrategy_on_bar(self, len, reading) ==
    IF len < warmup_period(self) THEN Quiet(self)
    ELSE MACrossover_signal(self, reading)

MeanReversionStrategy_on_bar(self, len, reading) ==
    IF len < warmup_period(self) THEN Quiet(self)
    ELSE Remembering(PositionMatch(self, reading))  \* last_percent_b, last_bandwidth

MomentumStrategy_on_bar(self, len, reading) ==
    IF len < warmup_period(self) THEN Quiet(self)
    ELSE Momentum_signal(self, reading)

RsiStrategy_on_bar(self, len, reading) ==
    IF len < warmup_period(self) THEN Quiet(self)
    ELSE Rsi_signal(self, reading)

\* self.bars_processed += 1, the first statement of every on_bar
Counted(self) == [self EXCEPT !.bars_processed = @ + 1]

\* Strategy::on_bar on a series of len bars
on_bar(self, len, reading) ==
    CASE self.name = "ma_crossover" ->
           MACrossoverStrategy_on_bar(Counted(self), len, reading)
      [] self.name = "mean_reversion" ->
           MeanReversionStrategy_on_bar(Counted(self), len, reading)
      [] self.name = "momentum" ->
           MomentumStrategy_on_bar(Counted(self), len, reading)
      [] self.name = "rsi" ->
           RsiStrategy_on_bar(Counted(self), len, reading)

\* Mutant: reset leaves the remembered indicator values in place
reset_keep_indicators(self) ==
    [self EXCEPT !.position = "Flat",
                 !.bars_processed = 0, !.signals_generated = 0]

\* Strategy::reset
reset(self) ==
    [self EXCEPT !.position = "Flat", !.prev = FALSE, !.prev_rel = "none",
                 !.bars_processed = 0, !.signals_generated = 0]

\* Strategy::state; a remembered indicator value is the last one computed,
\* an absent one reads as its unwrap_or default
state(self) ==
    [name |-> self.name,
     is_warmed_up |-> self.bars_processed >= warmup_period(self),
     bars_processed |-> self.bars_processed,
     signals_generated |-> self.signals_generated,
     indicators |-> IF self.prev THEN "last" ELSE "default",
     position |-> self.position]

StrategyInit ==
    /\ tasks = IdleRun
    /\ ind = IdleRun
    /\ orders = <<>>
    /\ portfolio = PortfolioNew(0)
    /\ slippage_pct = DefaultSlippagePct
    /\ commission_per_share = DefaultCommission
    /\ last = NoCall
    /\ ord = IdleOrder
    /\ pos = IdlePosition
    /\ posLast = NoCall
    /\ data = <<>>
    /\ iter_order = <<>>
    /\ script = <<>>
    /\ bt = IdleRun
    /\ twin = IdleRun
    /\ sizing = IdleRun
    /\ risk = IdleRun
    /\ stop = IdleRun
    /\ strat = [created |-> [kind |-> "Pending"], self |-> IdleRun,
                emitted |-> "none", last |-> NoCall]
    /\ tf = IdleRun
    /\ series = IdleRun

Created(result) ==
    strat' = [created |-> result,
              self |-> IF result.kind = "Ok" THEN result.strategy ELSE IdleRun,
              emitted |-> "none",
              last |-> [op |-> "create"]]

\* registry.create(name, config, symbols)
Create ==
    /\ strat.created.kind = "Pending"
    /\ \E symbols \in SymbolLists :
         \/ \E config \in MACrossoverConfigs :
              Created(create("ma_crossover", config, symbols))
         \/ \E config \in MeanReversionConfigs :
              Created(create("mean_reversion", config, symbols))
         \/ \E config \in MomentumConfigs :
              Created(create("momentum", config, symbols))
         \/ \E config \in RsiConfigs :
              Created(create("rsi", config, symbols))
         \/ \E config \in RsiConfigs :
              Created(create("unknown", config, symbols))
    /\ UNCHANGED <<coreVars, tasks, ind, sizing, risk, stop, tf, series>>

\* strat.emitted is the type of the signal the strategy emitted last since it
\* was created or reset
Ran(outcome, len, reading) ==
    strat' = [strat EXCEPT
                !.self = outcome.self,
                !.emitted = IF outcome.result.kind = "Some"
                            THEN outcome.result.signal_type ELSE @,
                !.last = [op |-> "on_bar", before |-> strat.self, len |-> len,
                          reading |-> reading, result |-> outcome.result,
                          emitted_before |-> strat.emitted]]

\* strategy.on_bar(&series)
OnBar ==
    /\ strat.created.kind = "Ok"
    /\ IF strat.last.op = "on_bar" THEN strat.last.result.kind # "Panic" ELSE TRUE
    /\ strat.self.bars_processed < MaxOnBarCalls
    /\ \E len \in 0..MaxSeriesLen, reading \in Readings :
         Ran(on_bar(strat.self, len, reading), len, reading)
    /\ UNCHANGED <<coreVars, tasks, ind, sizing, risk, stop, tf, series>>

\* strategy.reset()
Reset ==
    /\ strat.created.kind = "Ok"
    /\ IF strat.last.op = "on_bar" THEN strat.last.result.kind # "Panic" ELSE TRUE
    /\ strat' = [strat EXCEPT !.self = reset(strat.self),
                               !.emitted = "none",
                               !.last = [op |-> "reset", before |-> strat.self]]
    /\ UNCHANGED <<coreVars, tasks, ind, sizing, risk, stop, tf, series>>

StrategyNext == Create \/ OnBar \/ Reset

SpecStrategy == StrategyInit /\ [][StrategyNext]_vars

\* C15: invalid configuration is a construction-time error only: create
\* answers Ok, InvalidConfig or NotFound without aborting, and for every
\* strategy it returns, on_bar yields Some or None on every series and never
\* aborts.
C15_OnBarNeverAborts ==
    /\ strat.created.kind \in {"Pending", "Ok", "InvalidConfig", "NotFound"}
    /\ strat.last.op = "on_bar" => strat.last.result.kind \in {"None", "Some"}

\* C16: on a series with fewer bars than warmup_period(), on_bar of each of
\* the four strategies returns None and leaves the position state as it was.
C16_NoSignalBeforeWarmup ==
    (strat.last.op = "on_bar" /\ strat.last.len < warmup_period(strat.last.before)) =>
      /\ strat.last.result.kind = "None"
      /\ strat.self.position = strat.last.before.position

\* A strategy that is long is handed a short series whose newest bar reads as
\* an exit
C16_Witness ==
    /\ strat.last.op = "on_bar"
    /\ strat.last.len < warmup_period(strat.last.before)
    /\ strat.last.len > 0
    /\ strat.last.before.position = "Long"
    /\ strat.last.reading = "exit_long"
    /\ strat.self.position = "Long"
    /\ strat.last.result.kind = "None"

\* The strategy a fresh construction with the same configuration gives
FreshStrategy == StrategyNew(strat.self.name, strat.self.config, strat.self.symbols)

\* C25: for each of the four strategies, after any sequence of on_bar calls,
\* reset() leaves a state whose state() snapshot (warm-up flag, bars
\* processed, signals generated, indicator values, position) equals that of
\* a freshly constructed strategy with the same configuration, and the
\* strategy then answers every bar as the fresh one does.
C25_ResetIsFresh ==
    strat.last.op = "reset" =>
      /\ state(strat.self) = state(FreshStrategy)
      /\ \A len \in 0..MaxSeriesLen, reading \in Readings :
            on_bar(strat.self, len, reading) = on_bar(FreshStrategy, len, reading)

\* A strategy that was holding a position, had emitted a signal and
\* remembered its indicators has been reset
C25_Witness ==
    /\ strat.last.op = "reset"
    /\ strat.last.before.position # "Flat"
    /\ strat.last.before.prev
    /\ strat.last.before.signals_generated > 0
    /\ strat.last.before.bars_processed >= warmup_period(strat.last.before)
    /\ state(strat.last.before) # state(strat.self)

\* The latest on_bar call emitted a signal of type t
Emitted(t) ==
    /\ strat.last.op = "on_bar"
    /\ strat.last.result.kind = "Some"
    /\ strat.last.result.signal_type = t

\* The latest on_bar call moved the position from `from` to `to`
Moved(from, to) ==
    strat.last.before.position = from /\ strat.self.position = to

PositionTracking == {"mean_reversion", "momentum", "rsi"}

\* C31: each of the four strategies follows a Flat/Long/Short position state
\* machine: an entry signal is emitted only from Flat (Buy moves to Long,
\* Sell moves to Short and only when shorts are allowed), an exit only from
\* the matching position, so after a Buy no further Buy is emitted until an
\* exit or a Sell has been emitted; with allow_short = false mean reversion,
\* momentum and RSI never emit Sell or CloseShort.
C31_PositionStateMachine ==
    /\ Emitted("Buy") => strat.last.emitted_before # "Buy"
    /\ (strat.last.op = "on_bar" /\ strat.self.name \in PositionTracking) =>
          /\ Emitted("Buy") => Moved("Flat", "Long")
          /\ Emitted("Sell") => Moved("Flat", "Short") /\ strat.self.config.allow_short
          /\ Emitted("CloseLong") => Moved("Long", "Flat")
          /\ Emitted("CloseShort") => Moved("Short", "Flat")
          /\ (Emitted("Sell") \/ Emitted("CloseShort")) => strat.self.config.allow_short

\* The same for the three strategies that keep a position field
C31_TrackingStrategies ==
    (strat.last.op = "on_bar" /\ strat.self.name \in PositionTracking) =>
        C31_PositionStateMachine

-----------------------------------------------------------------------------
(* One strategy instance fed the series of two symbols, as BacktestEngine::run
   feeds the one strategy it is given: each bar is pushed on its symbol's
   series and the series is handed to on_bar.  Beside it runs an instance of
   the same strategy that is handed the series of symbol A only. *)
MaxFeeds == 5           \* bars fed to the shared instance, both symbols together

\* One valid configuration of each strategy, with the shortest warm-up
SharedStrategies ==
    {create("ma_crossover",
            [fast_period |-> 1, slow_period |-> 2, use_ema |-> FALSE],
            <<"A", "B">>).strategy,
     create("mean_reversion",
            [bb_period |-> 2, bb_std_dev |-> 2, entry_threshold_pct |-> 5,
             allow_short |-> TRUE], <<"A", "B">>).strategy,
     create("momentum",
            [momentum_period |-> 1, fast_ema_period |-> 1, slow_ema_period |-> 2,
             rsi_period |-> 1, allow_short |-> TRUE], <<"A", "B">>).strategy,
     create("rsi",
            [period |-> 2, overbought |-> 70, oversold |-> 30,
             allow_short |-> TRUE], <<"A", "B">>).strategy}

InterleaveInit ==
    /\ tasks = IdleRun
    /\ ind = IdleRun
    /\ orders = <<>>
    /\ portfolio = PortfolioNew(0)
    /\ slippage_pct = DefaultSlippagePct
    /\ commission_per_share = DefaultCommission
    /\ last = NoCall
    /\ ord = IdleOrder
    /\ pos = IdlePosition
    /\ posLast = NoCall
    /\ data = <<>>
    /\ iter_order = <<>>
    /\ script = <<>>
    /\ bt = IdleRun
    /\ twin = IdleRun
    /\ sizing = IdleRun
    /\ risk = IdleRun
    /\ stop = IdleRun
    /\ \E strategy \in SharedStrategies :
         strat = [shared |-> strategy, alone |-> strategy,
                  series_len |-> [sym \in Symbols |-> 0], last |-> NoCall]
    /\ tf = IdleRun
    /\ series = IdleRun

\* The loop body of the driver for a bar of `symbol`: series.push(bar), then
\* strategy.on_bar(series).  The instance that sees A alone gets A's bars only.
FedBar(symbol, len, reading, shared, alone) ==
    strat' = [shared |-> shared.self,
              alone |-> IF symbol = "A" THEN alone.self ELSE strat.alone,
              series_len |-> [strat.series_len EXCEPT ![symbol] = len],
              last |-> [op |-> "feed", symbol |-> symbol, reading |-> reading,
                        shared_result |-> shared.result,
                        alone_result |-> IF symbol = "A" THEN alone.result
                                         ELSE [kind |-> "NotFed"]]]

FeedBar ==
    /\ SumOver(strat.series_len, Symbols) < MaxFeeds
    /\ \E symbol \in Symbols, reading \in Readings :
         FedBar(symbol, strat.series_len[symbol] + 1, reading,
                on_bar(strat.shared, strat.series_len[symbol] + 1, reading),
                on_bar(strat.alone, strat.series_len[symbol] + 1, reading))
    /\ UNCHANGED <<coreVars, tasks, ind, sizing, risk, stop, tf, series>>

InterleaveNext == FeedBar

SpecInterleave == InterleaveInit /\ [][InterleaveNext]_vars

\* C32: strategies analyze each symbol independently: when one instance is
\* fed the series of several symbols in interleaved order, the signals it
\* emits for a symbol depend only on that symbol's bars: for every bar of A
\* the shared instance answers as the instance that sees A's bars alone.
C32_SymbolsIndependent ==
    (strat.last.op = "feed" /\ strat.last.symbol = "A") =>
        strat.last.shared_result = strat.last.alone_result

-----------------------------------------------------------------------------
(* trading-indicators: the batch indicators.  An f64 is carried as an
   integer and a quotient is rounded down; a Vec is a sequence. *)
MaxPeriod == 3          \* largest indicator period drawn
MaxDataLen == 6         \* longest input handed to calculate

RECURSIVE SeqSum(_)
SeqSum(s) == IF s = <<>> THEN 0 ELSE Head(s) + SeqSum(Tail(s))

\* v[from..] with a 0-based start
SliceFrom(v, from) == SubSeq(v, from + 1, Len(v))

\* slice::windows(size)
Windows(v, size) ==
    IF Len(v) < size THEN <<>>
    ELSE [i \in 1..(Len(v) - size + 1) |-> SubSeq(v, i, i + size - 1)]

\* Iterator::zip
Zip(a, b) == [i \in 1..Min(Len(a), Len(b)) |-> <<a[i], b[i]>>]

\* f64::sqrt, rounded down
Sqrt(n) == CHOOSE r \in 0..n : r * r <= n /\ (r + 1) * (r + 1) > n

\* The sliding-window loop of Sma::calculate, i the 0-based loop index
RECURSIVE SmaLoop(_, _, _, _, _)
SmaLoop(prices, period, i, sum, result) ==
    IF i >= Len(prices) THEN result
    ELSE SmaLoop(prices, period, i + 1,
                 sum - prices[i - period + 1] + prices[i + 1],
                 Append(result, (sum - prices[i - period + 1] + prices[i + 1]) \div period))

\* Sma::calculate
Sma_calculate(period, prices) ==
    IF Len(prices) < period THEN <<>>
    ELSE SmaLoop(prices, period, period, SeqSum(SubSeq(prices, 1, period)),
                 <<SeqSum(SubSeq(prices, 1, period)) \div period>>)

\* The smoothing loop of Ema::calculate, multiplier = 2 / (period + 1)
RECURSIVE EmaLoop(_, _, _, _)
EmaLoop(rest, period, ema, result) ==
    IF rest = <<>> THEN result
    ELSE EmaLoop(Tail(rest), period,
                 (2 * Head(rest) + (period - 1) * ema) \div (period + 1),
                 Append(result, (2 * Head(rest) + (period - 1) * ema) \div (period + 1)))

\* Ema::calculate
Ema_calculate(period, prices) ==
    IF Len(prices) < period THEN <<>>
    ELSE EmaLoop(SliceFrom(prices, period), period,
                 SeqSum(SubSeq(prices, 1, period)) \div period,
                 <<SeqSum(SubSeq(prices, 1, period)) \div period>>)

\* Wma::calculate
Wma_calculate(period, prices) ==
    IF Len(prices) < period THEN <<>>
    ELSE LET windows == Windows(prices, period)
         IN  [w \in DOMAIN windows |->
                SeqSum([i \in 1..period |-> windows[w][i] * i])
                  \div ((period * (period + 1)) \div 2)]

\* The population variance of a window
Variance(window) ==
    LET mean == SeqSum(window) \div Len(window)
    IN  SeqSum([i \in DOMAIN window |-> (window[i] - mean) * (window[i] - mean)])
          \div Len(window)

\* StdDev::calculate
StdDev_calculate(period, prices) ==
    IF Len(prices) < period THEN <<>>
    ELSE LET windows == Windows(prices, period)
         IN  [w \in DOMAIN windows |-> Sqrt(Variance(windows[w]))]

StdDevMultiplier == 2       \* BollingerBands::new: std_dev_multiplier 2.0

\* One BollingerOutput of BollingerBands::calculate
BollingerOutput(window, price) ==
    LET mean == SeqSum(window) \div Len(window)
        std_dev == Sqrt(Variance(window))
        upper == mean + StdDevMultiplier * std_dev
        lower == mean - StdDevMultiplier * std_dev
    IN  [upper |-> upper, middle |-> mean, lower |-> lower,
         bandwidth |-> IF mean # 0 THEN (upper - lower) \div mean ELSE 0,
         percent_b |-> IF upper # lower
                       THEN ((price - lower) * 100) \div (upper - lower) ELSE 50]

\* BollingerBands::calculate
Bollinger_calculate(period, prices) ==
    IF Len(prices) < period THEN <<>>
    ELSE LET windows == Windows(prices, period)
         IN  [w \in DOMAIN windows |-> BollingerOutput(windows[w], prices[period - 1 + w])]

\* Wilder's smoothing loop: avg = (avg * (period - 1) + value) / period
RECURSIVE WilderLoop(_, _, _, _)
WilderLoop(rest, period, avg, result) ==
    IF rest = <<>> THEN result
    ELSE WilderLoop(Tail(rest), period,
                    (avg * (period - 1) + Head(rest)) \div period,
                    Append(result, (avg * (period - 1) + Head(rest)) \div period))

\* Rsi::wilder_smooth
wilder_smooth(values, period) ==
    IF Len(values) < period THEN <<>>
    ELSE WilderLoop(SliceFrom(values, period), period,
                    SeqSum(SubSeq(values, 1, period)) \div period,
                    <<SeqSum(SubSeq(values, 1, period)) \div period>>)

\* The changes data[i] - data[i - 1] for i in 1..data.len()
Changes(prices) == [i \in 1..(Len(prices) - 1) |-> prices[i + 1] - prices[i]]

\* Rsi::calculate
Rsi_calculate(period, prices) ==
    IF Len(prices) <= period THEN <<>>
    ELSE LET changes == Changes(prices)
             gains == [i \in DOMAIN changes |-> IF changes[i] > 0 THEN changes[i] ELSE 0]
             losses == [i \in DOMAIN changes |-> IF changes[i] > 0 THEN 0 ELSE -changes[i]]
             smoothed == Zip(wilder_smooth(gains, period), wilder_smooth(losses, period))
         IN  [i \in DOMAIN smoothed |->
                IF smoothed[i][2] = 0 THEN 100
                ELSE 100 - (100 * smoothed[i][2]) \div (smoothed[i][1] + smoothed[i][2])]

\* Atr::calculate on closes
Atr_calculate(period, prices) ==
    IF Len(prices) < period + 1 THEN <<>>
    ELSE LET changes == Changes(prices)
             tr == [i \in DOMAIN changes |-> Abs(changes[i])]
         IN  WilderLoop(SliceFrom(tr, period), period,
                        SeqSum(SubSeq(tr, 1, period)) \div period,
                        <<SeqSum(SubSeq(tr, 1, period)) \div period>>)

\* Macd::calculate_ema
Macd_calculate_ema(prices, period) ==
    IF Len(prices) < period THEN <<>>
    ELSE EmaLoop(SliceFrom(prices, period), period,
                 SeqSum(SubSeq(prices, 1, period)) \div period,
                 <<SeqSum(SubSeq(prices, 1, period)) \div period>>)

\* Macd::calculate from the MACD line on
MacdOutputs(self, macd_line) ==
    IF Len(macd_line) < self.signal_period THEN <<>>
    ELSE LET pairs == Zip(SliceFrom(macd_line, self.signal_period - 1),
                          Macd_calculate_ema(macd_line, self.signal_period))
         IN  [i \in DOMAIN pairs |->
                [macd |-> pairs[i][1], signal |-> pairs[i][2],
                 histogram |-> pairs[i][1] - pairs[i][2]]]

\* Macd::calculate
Macd_calculate(self, prices) ==
    IF Len(prices) < self.slow_period + self.signal_period THEN <<>>
    ELSE LET aligned == Zip(SliceFrom(Macd_calculate_ema(prices, self.fast_period),
                                      self.slow_period - self.fast_period),
                            Macd_calculate_ema(prices, self.slow_period))
         IN  MacdOutputs(self, [i \in DOMAIN aligned |-> aligned[i][1] - aligned[i][2]])

SeqMax(s) == CHOOSE x \in {s[i] : i \in DOMAIN s} : \A i \in DOMAIN s : s[i] <= x
SeqMin(s) == CHOOSE x \in {s[i] : i \in DOMAIN s} : \A i \in DOMAIN s : s[i] >= x

\* The raw %K of Stochastic::calculate_ohlc for the window ending at 0-based i
RawK(self, high, low, close, i) ==
    LET highest == SeqMax(SubSeq(high, i + 2 - self.k_period, i + 1))
        lowest == SeqMin(SubSeq(low, i + 2 - self.k_period, i + 1))
    IN  IF highest - lowest = 0 THEN 50
        ELSE ((close[i + 1] - lowest) * 100) \div (highest - lowest)

\* Stochastic::calculate_ohlc
calculate_ohlc(self, high, low, close) ==
    LET len == Min(Min(Len(high), Len(low)), Len(close))
    IN  IF len < self.k_period + self.d_period - 1 THEN <<>>
        ELSE LET k_values == [j \in 1..(len - (self.k_period - 1)) |->
                                RawK(self, high, low, close, self.k_period - 1 + j - 1)]
             IN  IF Len(k_values) < self.d_period THEN <<>>
                 ELSE [j \in 1..(Len(k_values) - (self.d_period - 1)) |->
                         [k |-> k_values[self.d_period - 1 + j],
                          d |-> SeqSum(SubSeq(k_values, j, self.d_period - 1 + j))
                                  \div self.d_period]]

\* Indicator::calculate / MultiOutputIndicator::calculate
Indicator_calculate(self, prices) ==
    CASE self.kind = "SMA" -> Sma_calculate(self.period, prices)
      [] self.kind = "EMA" -> Ema_calculate(self.period, prices)
      [] self.kind = "WMA" -> Wma_calculate(self.period, prices)
      [] self.kind = "StdDev" -> StdDev_calculate(self.period, prices)
      [] self.kind = "Bollinger" -> Bollinger_calculate(self.period, prices)
      [] self.kind = "RSI" -> Rsi_calculate(self.period, prices)
      [] self.kind = "ATR" -> Atr_calculate(self.period, prices)
      [] self.kind = "MACD" -> Macd_calculate(self, prices)
      [] self.kind = "Stochastic" -> calculate_ohlc(self, prices, prices, prices)

\* Indicator::period, the declared minimum number of data points
Indicator_period(self) ==
    CASE self.kind \in {"SMA", "EMA", "WMA", "StdDev", "Bollinger"} -> self.period
      [] self.kind \in {"RSI", "ATR"} -> self.period + 1
      [] self.kind = "MACD" -> self.slow_period + self.signal_period
      [] self.kind = "Stochastic" -> self.k_period + self.d_period - 1

\* The indicators the constructors accept: period > 0, period > 1 for StdDev
\* and Bollinger, fast < slow for MACD
SinglePeriod(kinds, periods) == {[kind |-> k, period |-> p] : k \in kinds, p \in periods}

MacdIndicators ==
    {[kind |-> "MACD", fast_period |-> f, slow_period |-> sl, signal_period |-> sg] :
        f \in 1..MaxPeriod, sl \in 1..MaxPeriod, sg \in 1..2} 

StochasticIndicators ==
    {[kind |-> "Stochastic", k_period |-> k, d_period |-> d] : k \in 1..2, d \in 1..2}

DataValues == {1, 3}
DataSeries == {<<>>} \cup UNION {[1..n -> DataValues] : n \in 1..MaxDataLen}

IndicatorInit ==
    /\ tasks = IdleRun
    /\ ind = NoCall
    /\ orders = <<>>
    /\ portfolio = PortfolioNew(0)
    /\ slippage_pct = DefaultSlippagePct
    /\ commission_per_share = DefaultCommission
    /\ last = NoCall
    /\ ord = IdleOrder
    /\ pos = IdlePosition
    /\ posLast = NoCall
    /\ data = <<>>
    /\ iter_order = <<>>
    /\ script = <<>>
    /\ bt = IdleRun
    /\ twin = IdleRun
    /\ sizing = IdleRun
    /\ risk = IdleRun
    /\ stop = IdleRun
    /\ strat = IdleRun
    /\ tf = IdleRun
    /\ series = IdleRun

Calculated(self, input) ==
    ind' = [op |-> "calculate", indicator |-> self, data |-> input,
            result |-> Indicator_calculate(self, input)]

\* indicator.calculate(&data), once, for a freshly built indicator
CalculateIndicator ==
    /\ ind.op = "new"
    /\ \E input \in DataSeries :
         \/ \E self \in SinglePeriod({"SMA", "EMA", "WMA", "RSI", "ATR"}, 1..MaxPeriod) :
              Calculated(self, input)
         \/ \E self \in SinglePeriod({"StdDev", "Bollinger"}, 2..MaxPeriod) :
              Calculated(self, input)
         \/ \E self \in {m \in MacdIndicators : m.fast_period < m.slow_period} :
              Calculated(self, input)
         \/ \E self \in StochasticIndicators : Calculated(self, input)
    /\ UNCHANGED <<coreVars, tasks, sizing, risk, stop, strat, tf, series>>

IndicatorNext == CalculateIndicator

SpecIndicator == IndicatorInit /\ [][IndicatorNext]_vars

\* The output length the indicator contract gives for N data points
AlignedLength(self, N) ==
    CASE self.kind \in {"SMA", "EMA", "WMA", "StdDev", "Bollinger"} ->
           Max(0, N - self.period + 1)
      [] self.kind \in {"RSI", "ATR"} -> Max(0, N - self.period)
      [] self.kind \in {"MACD", "Stochastic"} -> Max(0, N - Indicator_period(self) + 1)

\* C22: for every batch indicator and every input length N >= 0, calculate
\* returns a sequence of length max(0, N - p + 1) for SMA, EMA, WMA, StdDev
\* and Bollinger with period p, max(0, N - p) for RSI and ATR, and
\* max(0, N - period() + 1) for MACD and Stochastic; input that is too short
\* yields an empty sequence.
C22_OutputLength ==
    ind.op = "calculate" =>
      Len(ind.result) = AlignedLength(ind.indicator, Len(ind.data))

-----------------------------------------------------------------------------
(* trading-indicators: StreamingEma *)
MaxUpdates == 5         \* updates between two resets of one StreamingEma

\* StreamingEma::new
StreamingEmaNew(period) ==
    [period |-> period, current |-> None, count |-> 0, sum |-> 0]

\* Mutant: the first value comes one update late
StreamingEma_update_late(self, value) ==
    IF self.count + 1 <= self.period
    THEN [self |-> [self EXCEPT !.count = @ + 1, !.sum = @ + value],
          result |-> None]
    ELSE IF self.count + 1 = self.period + 1
    THEN [self |-> [self EXCEPT !.count = @ + 1, !.sum = @ + value,
                                !.current = Some((self.sum + value) \div self.period)],
          result |-> Some((self.sum + value) \div self.period)]
    ELSE [self |-> [self EXCEPT !.count = @ + 1,
                                !.current = Some((2 * value + (self.period - 1) * Unwrap(self.current))
                                                   \div (self.period + 1))],
          result |-> Some((2 * value + (self.period - 1) * Unwrap(self.current))
                            \div (self.period + 1))]

\* StreamingEma::update, multiplier = 2 / (period + 1)
StreamingEma_update(self, value) ==
    IF self.count + 1 < self.period
    THEN [self |-> [self EXCEPT !.count = @ + 1, !.sum = @ + value],
          result |-> None]
    ELSE IF self.count + 1 = self.period
    THEN [self |-> [self EXCEPT !.count = @ + 1, !.sum = @ + value,
                                !.current = Some((self.sum + value) \div self.period)],
          result |-> Some((self.sum + value) \div self.period)]
    ELSE [self |-> [self EXCEPT !.count = @ + 1,
                                !.current = Some((2 * value + (self.period - 1) * Unwrap(self.current))
                                                   \div (self.period + 1))],
          result |-> Some((2 * value + (self.period - 1) * Unwrap(self.current))
                            \div (self.period + 1))]

\* StreamingEma::current
StreamingEma_current(self) == self.current

\* StreamingEma::reset
StreamingEma_reset(self) == [self EXCEPT !.current = None, !.count = 0, !.sum = 0]

\* StreamingEma::is_ready
StreamingEma_is_ready(self) == self.count >= self.period

\* ind.n counts the updates since construction or the last reset, ind.outputs
\* the values they returned; ind.was_ready tells that a ready indicator was
\* reset
StreamingInit ==
    /\ tasks = IdleRun
    /\ \E period \in 1..MaxPeriod :
         ind = [self |-> StreamingEmaNew(period), n |-> 0, outputs |-> 0,
                was_ready |-> FALSE, last |-> NoCall]
    /\ orders = <<>>
    /\ portfolio = PortfolioNew(0)
    /\ slippage_pct = DefaultSlippagePct
    /\ commission_per_share = DefaultCommission
    /\ last = NoCall
    /\ ord = IdleOrder
    /\ pos = IdlePosition
    /\ posLast = NoCall
    /\ data = <<>>
    /\ iter_order = <<>>
    /\ script = <<>>
    /\ bt = IdleRun
    /\ twin = IdleRun
    /\ sizing = IdleRun
    /\ risk = IdleRun
    /\ stop = IdleRun
    /\ strat = IdleRun
    /\ tf = IdleRun
    /\ series = IdleRun

\* ema.update(value)
UpdateEma ==
    /\ ind.n < MaxUpdates
    /\ \E value \in DataValues :
         LET r == StreamingEma_update(ind.self, value)
         IN  ind' = [ind EXCEPT
                       !.self = r.self,
                       !.n = @ + 1,
                       !.outputs = IF IsSome(r.result) THEN @ + 1 ELSE @,
                       !.last = [op |-> "update", value |-> value, result |-> r.result]]
    /\ UNCHANGED <<coreVars, tasks, sizing, risk, stop, strat, tf, series>>

\* ema.reset()
ResetEma ==
    /\ ind' = [ind EXCEPT
                 !.self = StreamingEma_reset(ind.self),
                 !.n = 0,
                 !.outputs = 0,
                 !.was_ready = @ \/ StreamingEma_is_ready(ind.self),
                 !.last = [op |-> "reset"]]
    /\ UNCHANGED <<coreVars, tasks, sizing, risk, stop, strat, tf, series>>

StreamingNext == UpdateEma \/ ResetEma

SpecStreaming == StreamingInit /\ [][StreamingNext]_vars

\* C23: StreamingEma with period p returns None for the first p - 1 updates
\* after construction or reset and Some for every later update, so n updates
\* yield max(0, n - p + 1) outputs; is_ready holds exactly when at least p
\* updates have been applied; reset restores the pre-warmup state
\* (current() = None, is_ready = false).
C23_StreamingWarmup ==
    /\ ind.last.op = "update" =>
         (IsSome(ind.last.result) <=> ind.n >= ind.self.period)
    /\ ind.outputs = Max(0, ind.n - ind.self.period + 1)
    /\ StreamingEma_is_ready(ind.self) <=> ind.n >= ind.self.period
    /\ IsSome(StreamingEma_current(ind.self)) <=> ind.n >= ind.self.period
    /\ ind.last.op = "reset" =>
         /\ StreamingEma_current(ind.self) = None
         /\ ~StreamingEma_is_ready(ind.self)
         /\ ind.self = StreamingEmaNew(ind.self.period)

\* A ready indicator was reset and its next p - 1 updates have again
\* returned nothing
C23_Witness ==
    /\ ind.was_ready
    /\ ind.self.period = MaxPeriod
    /\ ind.last.op = "update"
    /\ ind.n = ind.self.period - 1
    /\ ind.last.result = None
    /\ ind.outputs = 0

-----------------------------------------------------------------------------
(* Tasks calling one PaperBroker concurrently.  The broker's two fields are
   Arc<Mutex<..>>: a task steps from one lock().unwrap() to the next, a lock
   request waits until no task holds the lock, and a guard is released where
   it is dropped.  No operation awaits anything but another operation of the
   broker, so between two lock requests a task runs undisturbed. *)
TaskIds == {1, 2}
MaxCalls == 2           \* broker operations started by one task

LockNames == {"orders", "portfolio"}

ConcurrentCapital == 2001       \* 20.01: one share at 20.00 plus slippage
ConcurrentPrice == 2000
ConcurrentRequests ==
    {RequestMarket("A", "Buy", 1), RequestMarket("A", "Sell", 1)}

IdleTask ==
    [op |-> "none", pc |-> "idle", held |-> {}, id |-> 0, symbol |-> "-",
     request |-> RequestMarket("-", "Buy", 0), queue |-> <<>>, snapshot |-> {},
     calls |-> 0, ret |-> [op |-> "none"]]

\* The operations of the broker and the lock each of them asks for first
FirstPc ==
    [submit_order |-> "so_lock", cancel_order |-> "co_lock",
     execute_at_price |-> "ex_lock", update_prices |-> "up_lock",
     get_account |-> "ga_lock", get_open_orders |-> "go_lock",
     close_position |-> "cp_lock", close_all_positions |-> "ca_lock",
     cancel_all_orders |-> "xa_lock"]

Operations == DOMAIN FirstPc

\* The lock().unwrap() a task is about to make, and where it goes on
LockAt ==
    [so_lock |-> "orders", co_lock |-> "orders", ex_lock |-> "orders",
     ex_funds_lock |-> "portfolio", ex_fill_lock |-> "portfolio",
     up_lock |-> "portfolio", ga_lock |-> "portfolio", go_lock |-> "orders",
     cp_lock |-> "portfolio", ca_lock |-> "portfolio", xa_lock |-> "orders"]

AfterLock ==
    [so_lock |-> "so_insert", co_lock |-> "co_cancel", ex_lock |-> "ex_check",
     ex_funds_lock |-> "ex_funds", ex_fill_lock |-> "ex_fill",
     up_lock |-> "up_update", ga_lock |-> "ga_read", go_lock |-> "go_read",
     cp_lock |-> "cp_read", ca_lock |-> "ca_snapshot", xa_lock |-> "xa_snapshot"]

LockPcs == DOMAIN LockAt

\* The program points at which an operation calls another operation of the
\* broker: close_position calling submit_order, and the loops of
\* close_all_positions and cancel_all_orders
CallPcs == {"cp_submit", "ca_next", "xa_next"}

LockFree(lock) == \A t \in TaskIds : lock \notin tasks[t].held

\* Variant: the portfolio guard of close_position lives to the end of the
\* function
GuardsAfterBlock_kept(held) == held

\* The guards close_position still holds when it calls submit_order: the
\* inner block has dropped the portfolio guard
GuardsAfterBlock(held) == held \ {"portfolio"}

\* The operation returns: its guards are dropped and the task is free for
\* its next call
Returned(task, result) ==
    [IdleTask EXCEPT
        !.calls = task.calls + 1,
        !.ret = [op |-> task.op, result |-> result, snapshot |-> task.snapshot]]

Moved_to(task, pc, held) == [task EXCEPT !.pc = pc, !.held = held]

ConcurrentInit ==
    /\ tasks = [t \in TaskIds |-> IdleTask]
    /\ ind = IdleRun
    /\ orders = <<>>
    /\ portfolio = PortfolioNew(ConcurrentCapital)
    /\ slippage_pct = DefaultSlippagePct
    /\ commission_per_share = DefaultCommission
    /\ last = NoCall
    /\ ord = IdleOrder
    /\ pos = IdlePosition
    /\ posLast = NoCall
    /\ data = <<>>
    /\ iter_order = <<>>
    /\ script = <<>>
    /\ bt = IdleRun
    /\ twin = IdleRun
    /\ sizing = IdleRun
    /\ risk = IdleRun
    /\ stop = IdleRun
    /\ strat = IdleRun
    /\ tf = IdleRun
    /\ series = IdleRun

brokerConfig == <<slippage_pct, commission_per_share, last>>
otherVars ==
    <<orderVars, positionVars, backtestVars,
      sizing, risk, stop, strat, tf, series, ind>>

\* A task starts an operation of the broker
StartCall ==
    \E t \in TaskIds, op \in Operations :
      /\ tasks[t].pc = "idle"
      /\ tasks[t].calls < MaxCalls
      /\ \E id \in 1..MaxOrders, request \in ConcurrentRequests :
           /\ op \notin {"cancel_order", "execute_at_price"} => id = 1
           /\ op # "submit_order" => request = RequestMarket("A", "Buy", 1)
           /\ tasks' = [tasks EXCEPT ![t] =
                 [@ EXCEPT !.op = op, !.pc = FirstPc[op], !.id = id,
                           !.symbol = "A", !.request = request,
                           !.ret = [op |-> "none"]]]
      /\ UNCHANGED <<orders, portfolio, brokerConfig, otherVars>>

\* self.orders.lock().unwrap() / self.portfolio.lock().unwrap()
AcquireLock ==
    \E t \in TaskIds :
      /\ tasks[t].pc \in LockPcs
      /\ LockFree(LockAt[tasks[t].pc])
      /\ tasks' = [tasks EXCEPT ![t] =
            Moved_to(@, AfterLock[@.pc], @.held \cup {LockAt[@.pc]})]
      /\ UNCHANGED <<orders, portfolio, brokerConfig, otherVars>>

\* submit_order under the orders lock; close_all_positions goes on with its
\* loop when the submit_order of its close_position has returned
InsertOrder ==
    \E t \in TaskIds :
      /\ tasks[t].pc = "so_insert"
      /\ orders' = submit_order(orders, tasks[t].request).orders
      /\ tasks' = [tasks EXCEPT ![t] =
            IF @.op = "close_all_positions"
            THEN Moved_to(@, "ca_next", @.held \ {"orders"})
            ELSE Returned(@, "Ok")]
      /\ UNCHANGED <<portfolio, brokerConfig, otherVars>>

\* cancel_order under the orders lock; cancel_all_orders goes on with its
\* loop on Ok and returns the error otherwise (`?`)
CancelUnderLock ==
    \E t \in TaskIds :
      /\ tasks[t].pc = "co_cancel"
      /\ LET r == cancel_order(orders, tasks[t].id)
         IN  /\ orders' = r.orders
             /\ tasks' = [tasks EXCEPT ![t] =
                   IF @.op = "cancel_all_orders" /\ r.result.kind = "Ok"
                   THEN Moved_to(@, "xa_next", @.held \ {"orders"})
                   ELSE Returned(@, r.result.kind)]
      /\ UNCHANGED <<portfolio, brokerConfig, otherVars>>

\* execute_at_price, from the lookup of the order to the limit check
ExecuteCheck ==
    \E t \in TaskIds :
      /\ tasks[t].pc = "ex_check"
      /\ tasks' = [tasks EXCEPT ![t] =
            IF @.id \notin DOMAIN orders THEN Returned(@, "OrderNotFound")
            ELSE IF is_terminal(orders[@.id].status) THEN Returned(@, "Ok")
            ELSE IF LimitBlocks(orders[@.id],
                                SlippedPrice(orders[@.id].side, ConcurrentPrice,
                                             slippage_pct))
            THEN Returned(@, "Ok")
            ELSE IF orders[@.id].side = "Buy"
            THEN Moved_to(@, "ex_funds_lock", @.held)
            ELSE Moved_to(@, "ex_fill_lock", @.held)]
      /\ UNCHANGED <<orders, portfolio, brokerConfig, otherVars>>

\* execute_at_price, the buying-power check; drop(portfolio) when it passes
ExecuteFunds ==
    \E t \in TaskIds :
      /\ tasks[t].pc = "ex_funds"
      /\ tasks' = [tasks EXCEPT ![t] =
            IF FundsBlock(orders[@.id],
                          SlippedPrice(orders[@.id].side, ConcurrentPrice,
                                       slippage_pct),
                          portfolio)
            THEN Returned(@, "InsufficientFunds")
            ELSE Moved_to(@, "ex_fill_lock", @.held \ {"portfolio"})]
      /\ UNCHANGED <<orders, portfolio, brokerConfig, otherVars>>

\* execute_at_price, the fill and the portfolio update
ExecuteFill ==
    \E t \in TaskIds :
      /\ tasks[t].pc = "ex_fill"
      /\ LET order == orders[tasks[t].id]
             fill_price == SlippedPrice(order.side, ConcurrentPrice, slippage_pct)
             commission == commission_per_share * order.quantity
         IN  /\ orders' = [orders EXCEPT ![tasks[t].id] =
                              FilledOrder(order, fill_price, commission)]
             /\ portfolio' = PortfolioAfterFill(portfolio, order, fill_price,
                                                commission)
      /\ tasks' = [tasks EXCEPT ![t] = Returned(@, "Ok")]
      /\ UNCHANGED <<brokerConfig, otherVars>>

\* update_prices under the portfolio lock
UpdateUnderLock ==
    \E t \in TaskIds :
      /\ tasks[t].pc = "up_update"
      /\ portfolio' = update_prices(portfolio, [s \in {"A"} |-> ConcurrentPrice])
      /\ tasks' = [tasks EXCEPT ![t] = Returned(@, "Ok")]
      /\ UNCHANGED <<orders, brokerConfig, otherVars>>

\* The getters: get_account, get_positions, get_position, portfolio_snapshot
\* read under the portfolio lock, get_order and get_open_orders under the
\* orders lock
ReadUnderLock ==
    \E t \in TaskIds :
      /\ tasks[t].pc \in {"ga_read", "go_read"}
      /\ tasks' = [tasks EXCEPT ![t] = Returned(@, "Ok")]
      /\ UNCHANGED <<orders, portfolio, brokerConfig, otherVars>>

\* close_position, the block that reads the position; PositionNotFound
\* returns through `?`, also out of close_all_positions
ReadPosition ==
    \E t \in TaskIds :
      /\ tasks[t].pc = "cp_read"
      /\ tasks' = [tasks EXCEPT ![t] =
            IF @.symbol \notin DOMAIN portfolio.positions
            THEN Returned(@, "PositionNotFound")
            ELSE [Moved_to(@, "cp_submit", GuardsAfterBlock(@.held))
                    EXCEPT !.request =
                       RequestMarket(tasks[t].symbol,
                          IF is_long(portfolio.positions[tasks[t].symbol])
                          THEN "Sell" ELSE "Buy",
                          Abs(portfolio.positions[tasks[t].symbol].quantity))]]
      /\ UNCHANGED <<orders, portfolio, brokerConfig, otherVars>>

\* close_position: self.submit_order(request).await
CallSubmit ==
    \E t \in TaskIds :
      /\ tasks[t].pc = "cp_submit"
      /\ tasks' = [tasks EXCEPT ![t] = Moved_to(@, "so_lock", @.held)]
      /\ UNCHANGED <<orders, portfolio, brokerConfig, otherVars>>

\* close_all_positions and cancel_all_orders: the block that collects the
\* symbols held / the ids of the active orders, in the order in which the
\* HashMap yields them
TakeSnapshot ==
    \E t \in TaskIds :
      /\ tasks[t].pc \in {"ca_snapshot", "xa_snapshot"}
      /\ LET found == IF tasks[t].pc = "ca_snapshot"
                      THEN DOMAIN portfolio.positions
                      ELSE {id \in DOMAIN orders : is_active(orders[id].status)}
         IN  \E queue \in KeyOrders(found) :
               tasks' = [tasks EXCEPT ![t] =
                  [Moved_to(@, IF @.pc = "ca_snapshot" THEN "ca_next" ELSE "xa_next",
                            {})
                     EXCEPT !.queue = queue, !.snapshot = found]]
      /\ UNCHANGED <<orders, portfolio, brokerConfig, otherVars>>

\* The loops `for symbol in symbols { self.close_position(&symbol).await? }`
\* and `for order_id in order_ids { self.cancel_order(&order_id).await? }`
NextInLoop ==
    \E t \in TaskIds :
      /\ tasks[t].pc \in {"ca_next", "xa_next"}
      /\ tasks' = [tasks EXCEPT ![t] =
            IF @.queue = <<>> THEN Returned(@, "Ok")
            ELSE IF @.pc = "ca_next"
            THEN [Moved_to(@, "cp_lock", @.held)
                    EXCEPT !.symbol = Head(tasks[t].queue), !.queue = Tail(@)]
            ELSE [Moved_to(@, "co_lock", @.held)
                    EXCEPT !.id = Head(tasks[t].queue), !.queue = Tail(@)]]
      /\ UNCHANGED <<orders, portfolio, brokerConfig, otherVars>>

ConcurrentNext ==
    \/ StartCall \/ AcquireLock \/ InsertOrder \/ CancelUnderLock
    \/ ExecuteCheck \/ ExecuteFunds \/ ExecuteFill \/ UpdateUnderLock
    \/ ReadUnderLock \/ ReadPosition \/ CallSubmit \/ TakeSnapshot \/ NextInLoop

SpecConcurrent == ConcurrentInit /\ [][ConcurrentNext]_vars

\* A task inside an operation that can take its next step: it is not at a
\* lock request, or the lock it asks for is free
CanStep(t) ==
    /\ tasks[t].pc # "idle"
    /\ tasks[t].pc \in LockPcs => LockFree(LockAt[tasks[t].pc])

Waiting(t) == tasks[t].pc \in LockPcs /\ ~LockFree(LockAt[tasks[t].pc])

\* C33: concurrent PaperBroker operations cannot deadlock.  The portfolio
\* lock is requested only by a task that holds the orders lock or no lock,
\* the orders lock only by a task that holds no lock; no lock is held where
\* an operation calls another operation of the broker; and whenever a task
\* is inside an operation, some task inside an operation can go on.
C33_NoDeadlock ==
    /\ \A t \in TaskIds :
          /\ tasks[t].pc \in LockPcs =>
                IF LockAt[tasks[t].pc] = "portfolio"
                THEN tasks[t].held \subseteq {"orders"}
                ELSE tasks[t].held = {}
          /\ tasks[t].pc \in CallPcs => tasks[t].held = {}
          /\ tasks[t].pc = "idle" => tasks[t].held = {}
    /\ \A lock \in LockNames :
          Cardinality({t \in TaskIds : lock \in tasks[t].held}) <= 1
    /\ (\E t \in TaskIds : tasks[t].pc # "idle") => \E t \in TaskIds : CanStep(t)

\* One task is in execute_at_price holding both locks while the other, in
\* close_position, waits for the portfolio lock
C33_Witness ==
    /\ tasks[1].op = "execute_at_price"
    /\ tasks[1].held = {"orders", "portfolio"}
    /\ tasks[2].op = "close_position"
    /\ tasks[2].pc = "cp_lock"
    /\ Waiting(2)

\* C39: cancel_all_orders is effective under concurrency: when it returns it
\* has not failed, and every order that was active when it took its snapshot
\* is in a terminal status, whatever another task did to those orders in
\* between.
C39_CancelAllEffective ==
    \A t \in TaskIds :
        tasks[t].ret.op = "cancel_all_orders" =>
            /\ tasks[t].ret.result = "Ok"
            /\ \A id \in tasks[t].ret.snapshot : is_terminal(orders[id].status)

=============================================================================
